---------------------------- MODULE Spec2Model ----------------------------
(***************************************************************************)
(* Protocol: UNMASK server -- session orchestration and team state.        *)
(*                                                                         *)
(* The model follows the server sources: GameManager (the session          *)
(* orchestrator), Squad (one circular chain per team) and the socket       *)
(* handlers of the server entry point.  Every socket handler runs to       *)
(* completion (Node's single-threaded event loop), so each handler is one  *)
(* action.  Random draws (Math.random) and the wall clock (Date.now) are   *)
(* inputs of the actions.                                                  *)
(*                                                                         *)
(* Conventions: a JavaScript Map is a function whose DOMAIN is the key     *)
(* set; null / undefined is Null; a socket id is a number of PlayerIds;    *)
(* the squad id `squad_k` is the number k; a string is a sequence of       *)
(* one-character strings.                                                  *)
(***************************************************************************)
EXTENDS Integers, Sequences, FiniteSets, TLC

VARIABLES
    phase,              \* GameManager.phase
    squadSize,          \* GameManager.squadSize
    players,            \* GameManager.players : socketId -> player record
    squads,             \* GameManager.squads  : squad_k -> Squad, k = 1..n
    codeFragments,      \* GameManager.codeFragments : squadId -> fragments
    finishCounter,      \* global.finishCounter
    tumblerStates,      \* global.squadTumblerStates : squadId -> (id -> state)
    tumblerSyncStart,   \* global.squadTumblerSyncStart : squadId -> timestamp
    squadFragments,     \* global.squadFragments : squadId -> assignments, counter
    tumblerAngles,      \* global.squadTumblerAngles : squadId -> (id -> angle)
    peer,               \* a second GameManager of the process: its own fields
    now,                \* Date.now()
    out,                \* the last handler run: its inputs, callback, emits
    hist                \* history of the run (observation only, never read
                        \* by an action's guard or effect on program state)

vars == << phase, squadSize, players, squads, codeFragments, finishCounter,
           tumblerStates, tumblerSyncStart, squadFragments, tumblerAngles,
           peer, now, out, hist >>

-----------------------------------------------------------------------------
(* Bounds of the model *)

MaxPlayers == 4
MaxChainTicks == 1
MaxSweepTicks == 4
MaxGateTicks == 6
MaxIssued == 2
MaxFinishTicks == 1
MaxTimerTicks == 4

(* Program constants *)

Null == 0
DefaultSquadSize == 4
MinTeamSize == 2
MaxTeamSize == 10
gracePeriodsMs == 30000
HeartbeatMs == 10000
StaleMs == 2000
HoldSeconds == 3

PlayerIds == 1..MaxPlayers

EmptyMap == << >>

Has(m, k) == k \in DOMAIN m

Put(m, k, v) == [x \in (DOMAIN m) \cup {k} |-> IF x = k THEN v ELSE m[x]]

Delete(m, k) == [x \in (DOMAIN m) \ {k} |-> m[x]]

\* Map.get: undefined (Null) for a missing key
Get(m, k) == IF k \in DOMAIN m THEN m[k] ELSE Null

Range(f) == {f[x] : x \in DOMAIN f}

Min(a, b) == IF a < b THEN a ELSE b

Max(a, b) == IF a > b THEN a ELSE b

-----------------------------------------------------------------------------
(* Squad.js *)

\* new Squad(id, teamSize)
NewSquad(id, teamSize) ==
    [ id |-> id,
      players |-> << >>,
      scanMap |-> EmptyMap,
      teamSize |-> teamSize,
      maxSize |-> teamSize,
      isLoopComplete |-> FALSE,
      progress |-> 0,
      currentMinigame |-> "null",
      minigameStates |-> EmptyMap,
      currentView |-> "lobby",
      completedAt |-> Null,
      finishPosition |-> Null,
      tasksCompleted |-> 0,
      puzzleId |-> Null,
      correctSymbol |-> 0,
      syncTimer |-> Null ]

\* Squad.addPlayer: the player is appended unless the squad is full
AddPlayer(squad, playerId, t) ==
    IF Len(squad.players) >= squad.maxSize
    THEN squad
    ELSE [squad EXCEPT !.players =
            Append(@, [ id |-> playerId,
                        connected |-> TRUE,
                        scanComplete |-> FALSE,
                        lastHeartbeat |-> t ])]

\* Array.findIndex over squad.players, 1-based; 0 when there is none (-1 in JS)
FindIndex(squad, playerId) ==
    LET hits == {i \in 1..Len(squad.players) : squad.players[i].id = playerId}
    IN  IF hits = {} THEN 0 ELSE CHOOSE i \in hits : \A j \in hits : i <= j

\* A removePlayer that takes the member off the list
SquadRemovePlayerSplice(squad, playerId) ==
    [squad EXCEPT !.players = SelectSeq(@, LAMBDA p : p.id # playerId)]

\* A removePlayer that also forgets what the member confirmed
SquadRemovePlayerDropsScan(squad, playerId) ==
    LET index == FindIndex(squad, playerId)
    IN  IF index # 0
        THEN [squad EXCEPT !.players[index].connected = FALSE,
                           !.scanMap = Delete(@, playerId)]
        ELSE squad

\* Squad.removePlayer: the member stays in the list, marked disconnected
SquadRemovePlayer(squad, playerId) ==
    LET index == FindIndex(squad, playerId)
    IN  IF index # 0
        THEN [squad EXCEPT !.players[index].connected = FALSE]
        ELSE squad

\* The position after position i in the circular list (1-based):
\* (playerIndex + 1) % this.players.length
NextIndexWrongWrap(i, n) == IF i + 1 > n THEN n ELSE i + 1

NextIndex(i, n) == (i % n) + 1

\* Squad.getTarget: the id of the next member of the circular list, or Null
GetTarget(squad, playerId) ==
    LET playerIndex == FindIndex(squad, playerId)
    IN  IF playerIndex = 0
        THEN Null
        ELSE squad.players[NextIndex(playerIndex, Len(squad.players))].id


\* Squad.checkLoopComplete, the loop from member i on: every member must have
\* recorded exactly the next member of the list
RECURSIVE LoopFrom(_, _)
LoopFrom(squad, i) ==
    IF i > Len(squad.players)
    THEN TRUE
    ELSE LET player == squad.players[i]
             expectedTarget == squad.players[NextIndex(i, Len(squad.players))]
             actualTarget == Get(squad.scanMap, player.id)
         IN  IF actualTarget = Null \/ actualTarget # expectedTarget.id
             THEN FALSE
             ELSE LoopFrom(squad, i + 1)

\* A check that trusts the number of recorded scans instead of their targets
CheckLoopCompleteByCount(squad) ==
    Cardinality(DOMAIN squad.scanMap) >= Len(squad.players) - 1

CheckLoopComplete(squad) ==
    IF Len(squad.players) < 2 THEN FALSE ELSE LoopFrom(squad, 1)

\* Squad.getCompletedScans
GetCompletedScans(squad) == Cardinality(DOMAIN squad.scanMap)

\* A recordScan that accepts any member of the squad as the target
RecordScanAnyMember(squad, scannerId, targetId) ==
    IF FindIndex(squad, scannerId) = 0 \/ FindIndex(squad, targetId) = 0
    THEN [ success |-> FALSE, squad |-> squad ]
    ELSE LET s1 == [squad EXCEPT !.scanMap = Put(@, scannerId, targetId),
                                 !.players[FindIndex(squad, scannerId)].scanComplete = TRUE]
         IN  [ success |-> TRUE,
               squad |-> [s1 EXCEPT !.isLoopComplete = CheckLoopComplete(s1)] ]

\* Squad.recordScan: [success, squad after the call]
RecordScan(squad, scannerId, targetId) ==
    LET expectedTarget == GetTarget(squad, scannerId)
    IN  IF expectedTarget = Null \/ expectedTarget # targetId
        THEN [ success |-> FALSE, squad |-> squad ]
        ELSE LET s1 == [squad EXCEPT !.scanMap = Put(@, scannerId, targetId)]
                 scanner == FindIndex(s1, scannerId)
                 s2 == IF scanner # 0
                       THEN [s1 EXCEPT !.players[scanner].scanComplete = TRUE]
                       ELSE s1
             IN  [ success |-> TRUE,
                   squad |-> [s2 EXCEPT !.isLoopComplete = CheckLoopComplete(s2)] ]

\* A handleReconnect that makes the member confirm again
HandleReconnectStartsOver(squad, playerId, t) ==
    LET index == FindIndex(squad, playerId)
    IN  IF index # 0
        THEN [squad EXCEPT !.players[index].connected = TRUE,
                           !.players[index].lastHeartbeat = t,
                           !.players[index].scanComplete = FALSE]
        ELSE squad

\* Squad.handleReconnect
HandleReconnect(squad, playerId, t) ==
    LET index == FindIndex(squad, playerId)
    IN  IF index # 0
        THEN [squad EXCEPT !.players[index].connected = TRUE,
                           !.players[index].lastHeartbeat = t]
        ELSE squad

\* The timeout test of one member, with the comparison loosened to >=
TimedOutAtGrace(p, graceMs, t) ==
    (~p.connected) /\ (t - p.lastHeartbeat) >= graceMs

\* The filter of Squad.checkTimeouts for one member
TimedOut(p, graceMs, t) ==
    (~p.connected) /\ (t - p.lastHeartbeat) > graceMs

\* A checkTimeouts that looks at the connected members
SquadCheckTimeoutsOfConnected(squad, graceMs, t) ==
    {i \in 1..Len(squad.players) :
        squad.players[i].connected
        /\ (t - squad.players[i].lastHeartbeat) > graceMs}

\* Squad.checkTimeouts: the positions of the members that have timed out
SquadCheckTimeouts(squad, graceMs, t) ==
    {i \in 1..Len(squad.players) : TimedOut(squad.players[i], graceMs, t)}

\* Squad.setView
SetView(squad, view) ==
    [squad EXCEPT !.currentView = view,
                  !.tasksCompleted = CASE view = "tumbler" -> 1
                                       [] view = "getaway" -> 2
                                       [] view = "complete" -> 3
                                       [] OTHER -> @]

\* Squad.markComplete
MarkComplete(squad, position, t) ==
    [squad EXCEPT !.completedAt = t,
                  !.finishPosition = position,
                  !.currentView = "complete",
                  !.tasksCompleted = 3]

\* Squad.setMinigame
SetMinigame(squad, minigame) ==
    [squad EXCEPT !.currentMinigame = minigame, !.minigameStates = EmptyMap]

\* Squad.updateProgress
UpdateProgress(squad, delta) ==
    [squad EXCEPT !.progress = Min(100, Max(0, @ + delta))]

-----------------------------------------------------------------------------
(* GameManager *)

Phases == {"start", "tutorial", "lobby", "chain", "heist", "getaway", "complete"}

\* keypadChars = 'ABCDEFGH12345678'
KeypadChars ==
    << "A", "B", "C", "D", "E", "F", "G", "H",
       "1", "2", "3", "4", "5", "6", "7", "8" >>

\* PUZZLES[k].correctIndex, in catalog order
PuzzleCorrectIndex == << 7, 2, 4, 5, 5, 6, 4 >>

\* The ids of a set in ascending order
RECURSIVE SortedSeq(_)
SortedSeq(S) ==
    IF S = {} THEN << >>
    ELSE LET m == CHOOSE x \in S : \A y \in S : x <= y
         IN  << m >> \o SortedSeq(S \ {m})

Swap(list, i, j) ==
    [list EXCEPT ![i] = list[j], ![j] = list[i]]

\* The Fisher-Yates loop of formSquads from position i down; draws[i] in 1..i
\* is the position Math.floor(Math.random() * (i + 1)) picks (1-based)
RECURSIVE FisherYates(_, _, _)
FisherYates(list, i, draws) ==
    IF i <= 1 THEN list
    ELSE FisherYates(Swap(list, i, draws[i]), i - 1, draws)

\* All sequences of draws the shuffle of n entries can make
ShuffleDraws(n) == {d \in [2..n -> 1..n] : \A i \in 2..n : d[i] <= i}

\* Array.from(this.players.values()); the order of the entries before the
\* shuffle does not matter, every permutation is one sequence of draws away
PlayerList(registry) == SortedSeq(DOMAIN registry)

\* The inner loop of formSquads: members startIdx+1..endIdx of the list join
\* the squad
RECURSIVE FillSquad(_, _, _, _, _)
FillSquad(squad, list, i, endIdx, t) ==
    IF i > endIdx THEN squad
    ELSE FillSquad(AddPlayer(squad, list[i], t), list, i + 1, endIdx, t)

\* A formation that fills each squad from the head of the shuffled list
FormedSquadsFromHead(list, size, t) ==
    [ squadIdx \in 1..(Len(list) \div size) |->
        FillSquad(NewSquad(squadIdx, size), list, 1, size, t) ]

\* formSquads, the squads: numSquads squads of squadSize consecutive entries
FormedSquads(list, size, t) ==
    [ squadIdx \in 1..(Len(list) \div size) |->
        FillSquad(NewSquad(squadIdx, size), list,
                  (squadIdx - 1) * size + 1, squadIdx * size, t) ]

\* formSquads, the registry: every player placed in a squad refers to it
FormedPlayers(registry, list, size) ==
    [ id \in DOMAIN registry |->
        LET at == CHOOSE i \in 1..Len(list) : list[i] = id
        IN  IF at <= (Len(list) \div size) * size
            THEN [registry[id] EXCEPT !.squad = ((at - 1) \div size) + 1]
            ELSE registry[id] ]

\* A validation that only asks for enough players
CanStartGameNoDivisibility ==
    IF Cardinality(DOMAIN players) < squadSize
    THEN [ valid |-> FALSE, needed |-> squadSize ]
    ELSE [ valid |-> TRUE, needed |-> 0 ]

\* GameManager.canStartGame; `needed` is the number the message names
CanStartGame ==
    LET count == Cardinality(DOMAIN players)
    IN  IF count < squadSize
        THEN [ valid |-> FALSE, needed |-> squadSize ]
        ELSE IF count % squadSize # 0
        THEN [ valid |-> FALSE, needed |-> squadSize - (count % squadSize) ]
        ELSE [ valid |-> TRUE, needed |-> 0 ]

\* GameManager.generateCodeFragments: draw[i] is the position in keypadChars
\* of the i-th random character
GenerateCodeFragments(teamSize, draw) ==
    [ i \in 1..teamSize |-> KeypadChars[draw[i]] ]

\* The history after a formation: every member is connected, nobody has been
\* auto-resolved
HistFormed ==
    [hist EXCEPT !.disconnectedAt = [id \in PlayerIds |-> -1],
                 !.autoResolved = [id \in PlayerIds |-> 0],
                 !.formations = Min(@ + 1, 2)]

-----------------------------------------------------------------------------
(* The state after construction: new GameManager(io), no global set *)

\* new GameManager(io): the fields a GameManager owns
NewManager ==
    [ phase |-> "start", squadSize |-> DefaultSquadSize, players |-> EmptyMap,
      squads |-> << >>, codeFragments |-> EmptyMap ]

OutInit == [ op |-> "init", id |-> Null, arg |-> Null, res |-> Null ]

HistInit ==
    [ disconnectedAt |-> [id \in PlayerIds |-> -1],
      autoResolved |-> [id \in PlayerIds |-> 0],
      issued |-> << >>,
      formations |-> 0,
      resetAt |-> -1,
      holdSince |-> [k \in PlayerIds |-> -1],
      fires |-> [k \in PlayerIds |-> 0],
      broken |-> [k \in PlayerIds |-> FALSE] ]

Init ==
    /\ phase = "start"
    /\ squadSize = DefaultSquadSize
    /\ players = EmptyMap
    /\ squads = << >>
    /\ codeFragments = EmptyMap
    /\ finishCounter = 0
    /\ tumblerStates = EmptyMap
    /\ tumblerSyncStart = EmptyMap
    /\ squadFragments = EmptyMap
    /\ tumblerAngles = EmptyMap
    /\ peer = NewManager
    /\ now = 0
    /\ out = OutInit
    /\ hist = HistInit

-----------------------------------------------------------------------------
(* Handlers of the player namespace *)

\* socket.on('register'): GameManager.registerPlayer stores a fresh record,
\* replacing any record the socket id already has
Register(socketId) ==
    /\ players' = Put(players, socketId, [ squad |-> Null ])
    /\ out' = [ op |-> "register", id |-> Null, arg |-> Null,
                res |-> [ success |-> TRUE ] ]
    /\ UNCHANGED << phase, squadSize, squads, codeFragments, finishCounter,
                    tumblerStates, tumblerSyncStart, now, hist, squadFragments,
                    tumblerAngles, peer >>

\* A lookup through the member lists of the squads, without the registry
SquadOfByMembership(socketId) ==
    IF \E k \in DOMAIN squads : \E i \in 1..Len(squads[k].players) :
          squads[k].players[i].id = socketId
    THEN CHOOSE k \in DOMAIN squads : \E i \in 1..Len(squads[k].players) :
            squads[k].players[i].id = socketId
    ELSE Null

\* The squad id a registered player refers to, when that squad exists
SquadOf(socketId) ==
    IF Has(players, socketId)
       /\ players[socketId].squad # Null
       /\ players[socketId].squad \in DOMAIN squads
    THEN players[socketId].squad
    ELSE Null

\* socket.on('disconnect'): GameManager.removePlayer marks the member
\* disconnected in its squad and deletes the registry record
Disconnect(socketId) ==
    LET squadId == SquadOf(socketId)
        index == IF squadId = Null THEN 0
                 ELSE FindIndex(squads[squadId], socketId)
    IN  /\ squads' = IF squadId # Null
                     THEN [squads EXCEPT ![squadId] =
                              SquadRemovePlayer(@, socketId)]
                     ELSE squads
        /\ players' = Delete(players, socketId)
        /\ hist' = IF index # 0 /\ squads[squadId].players[index].connected
                   THEN [hist EXCEPT !.disconnectedAt[socketId] = now]
                   ELSE hist
        /\ out' = [ op |-> "disconnect", id |-> Null, arg |-> Null,
                    res |-> Null ]
        /\ UNCHANGED << phase, squadSize, codeFragments, finishCounter,
                        tumblerStates, tumblerSyncStart, now, squadFragments,
                    tumblerAngles, peer >>

-----------------------------------------------------------------------------
(* Handlers of the game-master namespace *)

\* A setTeamSize without the range test
TeamSizeAfterNoRange(size) == size

\* GameManager.setTeamSize, the size after the call
TeamSizeAfter(size) ==
    IF size >= MinTeamSize /\ size <= MaxTeamSize THEN size ELSE squadSize

\* gm socket.on('set_team_size')
SetTeamSize(size) ==
    /\ squadSize' = TeamSizeAfter(size)
    /\ out' = [ op |-> "set_team_size", id |-> Null, arg |-> size,
                res |-> Null ]
    /\ UNCHANGED << phase, players, squads, codeFragments, finishCounter,
                    tumblerStates, tumblerSyncStart, now, hist, squadFragments,
                    tumblerAngles, peer >>

\* setPhase('heist') for one squad: a puzzle of the catalog, the minigame and
\* the view, then the correct symbol drawn again at random
EnterHeist(squad, puzzle, symbol) ==
    LET s1 == [squad EXCEPT !.puzzleId = puzzle,
                            !.correctSymbol = PuzzleCorrectIndex[puzzle]]
        s2 == SetView(SetMinigame(s1, "signal_jammer"), "signal_jammer")
    IN  [s2 EXCEPT !.correctSymbol = symbol]

\* gm socket.on('set_phase') / socket.on('start_game'): GameManager.setPhase.
\* rnd holds the random draws of the call: rnd.draws for the shuffle,
\* rnd.codes[k] for the code of squad k, rnd.puzzle[k] and rnd.symbol[k] for
\* its puzzle and its symbol
SetPhase(newPhase, rnd) ==
    LET validation == CanStartGame
        rejected == newPhase = "chain" /\ ~validation.valid
        list == FisherYates(PlayerList(players), Cardinality(DOMAIN players),
                            rnd.draws)
    IN  /\ phase' = IF rejected THEN phase ELSE newPhase
        /\ squads' =
             CASE rejected -> squads
               [] newPhase = "chain" -> FormedSquads(list, squadSize, now)
               [] newPhase = "heist" ->
                    [ k \in DOMAIN squads |->
                        EnterHeist(squads[k], rnd.puzzle[k], rnd.symbol[k]) ]
               [] OTHER -> squads
        /\ players' =
             IF newPhase = "chain" /\ ~rejected
             THEN FormedPlayers(players, list, squadSize)
             ELSE players
        /\ codeFragments' =
             CASE newPhase = "heist" ->
                    [ k \in (DOMAIN codeFragments) \cup (DOMAIN squads) |->
                        IF k \in DOMAIN squads
                        THEN GenerateCodeFragments(Len(squads[k].players),
                                                   rnd.codes[k])
                        ELSE codeFragments[k] ]
               [] newPhase = "getaway" ->
                    [ k \in (DOMAIN codeFragments) \cup (DOMAIN squads) |->
                        IF Has(codeFragments, k)
                        THEN codeFragments[k]
                        ELSE GenerateCodeFragments(Len(squads[k].players),
                                                   rnd.codes[k]) ]
               [] OTHER -> codeFragments
        /\ hist' = IF newPhase = "chain" /\ ~rejected THEN HistFormed ELSE hist
        /\ out' = [ op |-> "set_phase", id |-> Null, arg |-> newPhase,
                    res |-> [ success |-> ~rejected,
                              needed |-> IF rejected THEN validation.needed
                                         ELSE 0,
                              phaseChange |-> ~rejected ] ]
        /\ UNCHANGED << squadSize, finishCounter, tumblerStates,
                        tumblerSyncStart, now, squadFragments,
                    tumblerAngles, peer >>

\* The draws of a call that draws nothing
NoDraws == [ draws |-> << >>, codes |-> << >>, puzzle |-> << >>,
             symbol |-> << >> ]


-----------------------------------------------------------------------------
(* The lobby: registration, team size, phase changes and team formation *)

\* Sizes the game master may send: in range, out of range on both sides
TeamSizeInputs ==
    {MinTeamSize - 1, MinTeamSize, MinTeamSize + 1, MaxTeamSize + 1}

\* setPhase('chain') with every shuffle the registry allows (a rejected call
\* shuffles nothing)
SetPhaseChain ==
    IF CanStartGame.valid
    THEN \E draws \in ShuffleDraws(Cardinality(DOMAIN players)) :
            SetPhase("chain", [NoDraws EXCEPT !.draws = draws])
    ELSE SetPhase("chain", NoDraws)

\* setPhase('heist') / setPhase('getaway') with the secrets, puzzles and
\* symbols drawn from the given sets (a secret is drawn as the positions of
\* its characters in KeypadChars)
SetPhaseDrawing(newPhase, secretDraws, puzzleDraws, symbolDraws) ==
    \E codes \in [DOMAIN squads -> secretDraws],
       puzzle \in [DOMAIN squads -> puzzleDraws],
       symbol \in [DOMAIN squads -> symbolDraws] :
        SetPhase(newPhase, [ draws |-> << >>, codes |-> codes,
                             puzzle |-> puzzle, symbol |-> symbol ])

\* A phase change that draws nothing
SetPhasePlain ==
    \E newPhase \in {"lobby"} :
        SetPhase(newPhase, NoDraws)

Next ==
    \/ \E socketId \in PlayerIds : Register(socketId)
    \/ \E size \in TeamSizeInputs : SetTeamSize(size)
    \/ SetPhaseChain
    \/ SetPhasePlain

Spec == Init /\ [][Next]_vars

-----------------------------------------------------------------------------
(* Team formation *)

\* Every (squad, position) pair of the team registry
Seats == {<<k, i>> \in (DOMAIN squads) \X (1..MaxTeamSize) :
             i <= Len(squads[k].players)}

\* The ids on the member lists of all squads
AllMembers == {squads[s[1]].players[s[2]].id : s \in Seats}

\* C1: for every team size N in 2..10 and player count P >= N with
\* P mod N = 0, setPhase('chain') forms exactly P/N teams of exactly N members
\* each, whose member lists together hold every registered player and no
\* player twice.
FormTeamsPartition ==
    LET P == Cardinality(DOMAIN players)
        N == squadSize
    IN  (/\ out.op = "set_phase"
         /\ out.arg = "chain"
         /\ N \in MinTeamSize..MaxTeamSize
         /\ P >= N
         /\ P % N = 0)
        => /\ out.res.success
           /\ Len(squads) = P \div N
           /\ \A k \in DOMAIN squads : Len(squads[k].players) = N
           /\ AllMembers = DOMAIN players
           /\ \A s1, s2 \in Seats :
                squads[s1[1]].players[s1[2]].id = squads[s2[1]].players[s2[2]].id
                    => s1 = s2

\* Two teams have just been formed from four registered players
FormTeamsWitness ==
    /\ out.op = "set_phase"
    /\ out.arg = "chain"
    /\ out.res.success
    /\ Len(squads) = 2
    /\ Cardinality(DOMAIN players) = 4

-----------------------------------------------------------------------------
(* The chain phase: targets, scans, heartbeats and the liveness sweep *)

\* A lookup that trusts the squad and skips the registry
GetTargetInfoNoRegistry(socketId) ==
    LET hits == {k \in DOMAIN squads : FindIndex(squads[k], socketId) # 0}
    IN  IF hits = {} THEN Null
        ELSE GetTarget(squads[CHOOSE k \in hits : TRUE], socketId)

\* GameManager.getTargetInfo: the id of the target's profile, or Null
GetTargetInfo(socketId) ==
    LET squadId == SquadOf(socketId)
    IN  IF squadId = Null THEN Null ELSE GetTarget(squads[squadId], socketId)

\* socket.on('get_target')
GetTargetOp(socketId) ==
    /\ out' = [ op |-> "get_target", id |-> Null, arg |-> Null,
                res |-> [ target |-> GetTargetInfo(socketId) ] ]
    /\ UNCHANGED << phase, squadSize, players, squads, codeFragments,
                    finishCounter, tumblerStates, tumblerSyncStart, now, hist, squadFragments,
                    tumblerAngles, peer >>

\* GameManager.handleScan: the result and the squads after the call
HandleScan(scannerId, targetId) ==
    LET squadId == SquadOf(scannerId)
        scan == RecordScan(squads[squadId], scannerId, targetId)
    IN  IF squadId = Null
        THEN [ success |-> FALSE, loopComplete |-> FALSE, squads |-> squads ]
        ELSE IF ~scan.success
        THEN [ success |-> FALSE, loopComplete |-> FALSE, squads |-> squads ]
        ELSE [ success |-> TRUE,
               loopComplete |-> scan.squad.isLoopComplete,
               squads |-> [squads EXCEPT ![squadId] = scan.squad] ]

\* socket.on('scan'): the callback gets the result; squad_activated goes to the
\* members when the result says the loop is complete
Scan(socketId, targetId) ==
    LET result == HandleScan(socketId, targetId)
    IN  /\ squads' = result.squads
        /\ out' = [ op |-> "scan", id |-> Null, arg |-> Null,
                    res |-> [ success |-> result.success,
                              loopComplete |-> result.loopComplete,
                              activated |-> result.success
                                            /\ result.loopComplete ] ]
        /\ UNCHANGED << phase, squadSize, players, codeFragments,
                        finishCounter, tumblerStates, tumblerSyncStart, now,
                        hist, squadFragments,
                    tumblerAngles, peer >>

\* A heartbeat that looks the sender up in the squads, not in the registry
HeartbeatAnyMember(socketId) ==
    /\ squads' = [ k \in DOMAIN squads |->
                     HandleReconnect(squads[k], socketId, now) ]
    /\ out' = [ op |-> "heartbeat", id |-> Null, arg |-> Null,
                res |-> Null ]
    /\ UNCHANGED << phase, squadSize, players, codeFragments,
                    finishCounter, tumblerStates, tumblerSyncStart, now,
                    hist, squadFragments,
                tumblerAngles, peer >>

\* socket.on('heartbeat'): GameManager.handleHeartbeat
Heartbeat(socketId) ==
    LET squadId == SquadOf(socketId)
    IN  /\ squads' = IF squadId # Null
                     THEN [squads EXCEPT ![squadId] =
                              HandleReconnect(@, socketId, now)]
                     ELSE squads
        /\ out' = [ op |-> "heartbeat", id |-> Null, arg |-> Null,
                    res |-> Null ]
        /\ UNCHANGED << phase, squadSize, players, codeFragments,
                        finishCounter, tumblerStates, tumblerSyncStart, now,
                        hist, squadFragments,
                    tumblerAngles, peer >>

\* The loop of GameManager.checkTimeouts over the timed-out members of one
\* squad, from position i on: [squad after, ids auto-resolved]
RECURSIVE ResolveFrom(_, _, _, _)
ResolveFrom(squad, timedOut, i, resolved) ==
    IF i > Len(squad.players)
    THEN [ squad |-> squad, resolved |-> resolved ]
    ELSE LET player == squad.players[i]
             target == GetTarget(squad, player.id)
             resolves == /\ i \in timedOut
                         /\ target # Null
                         /\ ~Has(squad.scanMap, player.id)
         IN  CHOOSE result \in
                 { ResolveFrom(after, timedOut, i + 1,
                               IF resolves THEN resolved \cup {player.id}
                               ELSE resolved) :
                     after \in { IF resolves
                                 THEN RecordScan(squad, player.id,
                                                 target).squad
                                 ELSE squad } } : TRUE

\* GameManager.checkTimeouts for one squad
SweepSquad(squad) ==
    ResolveFrom(squad, SquadCheckTimeouts(squad, gracePeriodsMs, now), 1, {})

\* setInterval(() => gameManager.checkTimeouts(), 5000): one sweep; every
\* auto-resolved member is announced to its squad (auto_resolved)
CheckTimeouts ==
    LET swept == [ k \in DOMAIN squads |-> SweepSquad(squads[k]) ]
        resolved == UNION { swept[k].resolved : k \in DOMAIN squads }
    IN  /\ squads' = [ k \in DOMAIN squads |-> swept[k].squad ]
        /\ out' = [ op |-> "check_timeouts", id |-> Null, arg |-> Null,
                    res |-> [ resolved |-> resolved ] ]
        /\ hist' = [hist EXCEPT !.autoResolved =
                      [ id \in PlayerIds |->
                          IF id \in resolved THEN @[id] + 1 ELSE @[id] ]]
        /\ UNCHANGED << phase, squadSize, players, codeFragments,
                        finishCounter, tumblerStates, tumblerSyncStart, now, squadFragments,
                    tumblerAngles, peer >>

\* Time passes: ms milliseconds, up to the horizon
Tick(ms, horizon) ==
    /\ now + ms <= horizon
    /\ now' = now + ms
    /\ out' = [ op |-> "tick", id |-> Null, arg |-> Null, res |-> Null ]
    /\ UNCHANGED << phase, squadSize, players, squads, codeFragments,
                    finishCounter, tumblerStates, tumblerSyncStart, hist, squadFragments,
                    tumblerAngles, peer >>

\* The state after `count` players registered, the team size was set to
\* `size` and setPhase('chain') formed the squads with the shuffle `draws`
Formed(count, size, draws) ==
    LET registry == [ id \in 1..count |-> [ squad |-> Null ] ]
        list == FisherYates(PlayerList(registry), count, draws)
    IN  /\ phase = "chain"
        /\ squadSize = size
        /\ players = FormedPlayers(registry, list, size)
        /\ squads = FormedSquads(list, size, 0)
        /\ codeFragments = EmptyMap
        /\ finishCounter = 0
        /\ tumblerStates = EmptyMap
        /\ tumblerSyncStart = EmptyMap
        /\ squadFragments = EmptyMap
        /\ tumblerAngles = EmptyMap
        /\ peer = NewManager
        /\ now = 0
        /\ out = [ op |-> "set_phase", id |-> Null, arg |-> "chain",
                   res |-> [ success |-> TRUE, needed |-> 0,
                             phaseChange |-> TRUE ] ]
        /\ hist = [HistInit EXCEPT !.formations = 1]

\* Two shuffles of n entries: the one that swaps nothing and a rotation
SomeDraws(n) == { [i \in 2..n |-> i], [i \in 2..n |-> 1] }

\* The step of the clock in the chain phase: long enough for a member that
\* stays silent to time out
ChainTickMs == gracePeriodsMs + HeartbeatMs

\* One squad of two or of three members
InitChain ==
    \E size \in {2, 3} : \E draws \in SomeDraws(size) :
        Formed(size, size, draws)

NextChain ==
    \/ \E socketId \in PlayerIds : GetTargetOp(socketId)
    \/ \E socketId \in PlayerIds, targetId \in PlayerIds \cup {Null} :
          Scan(socketId, targetId)
    \/ \E socketId \in PlayerIds : Heartbeat(socketId)
    \/ \E socketId \in PlayerIds : Disconnect(socketId)
    \/ CheckTimeouts
    \/ Tick(ChainTickMs, MaxChainTicks * ChainTickMs)

SpecChain == InitChain /\ [][NextChain]_vars

-----------------------------------------------------------------------------
(* The circular chain *)

\* The state of the program, without the observation variables out and hist
progVars == << phase, squadSize, players, squads, codeFragments,
               finishCounter, tumblerStates, tumblerSyncStart, squadFragments,
               tumblerAngles, peer, now >>

\* The seats (squad, position) a player id occupies
SeatsOf(id) == {s \in Seats : squads[s[1]].players[s[2]].id = id}

\* The member the circular order requires a player to confirm: the member at
\* position (i + 1) mod N for a player at position i of a squad of N, Null for
\* a player on no squad
RequiredTarget(id) ==
    IF SeatsOf(id) = {} THEN Null
    ELSE LET s == CHOOSE x \in SeatsOf(id) : TRUE
             N == Len(squads[s[1]].players)
         IN  squads[s[1]].players[(s[2] % N) + 1].id

\* C2: in every reachable state the loop-completion flag of a team is true
\* exactly when the confirmation map records, for every member p_i, the
\* member p_((i+1) mod N); one missing or different entry keeps it false.
LoopFlagIffAllConfirmed ==
    \A k \in DOMAIN squads :
        LET N == Len(squads[k].players)
            member(i) == squads[k].players[i].id
        IN  squads[k].isLoopComplete
              <=> \A i \in 1..N :
                    /\ member(i) \in DOMAIN squads[k].scanMap
                    /\ squads[k].scanMap[member(i)] = member((i % N) + 1)

\* A squad of three has closed its loop, and a squad is one confirmation short
LoopCompleteWitness ==
    \E k \in DOMAIN squads :
        /\ Len(squads[k].players) = 3
        /\ squads[k].isLoopComplete
        /\ out.op = "scan"

\* C3: a confirmation is accepted only if the named target is exactly the
\* confirmer's required target; one that names anybody else, or comes from a
\* player on no team, fails and changes nothing of the program state: a scan
\* step either fails and leaves everything alone, or every (confirmer, target)
\* that can have produced it names the confirmer's required target.
ScanAcceptsOnlyTarget ==
    [][ out'.op = "scan" =>
        \/ /\ ~out'.res.success
           /\ ~out'.res.activated
           /\ UNCHANGED progVars
           /\ UNCHANGED hist
        \/ \A socketId \in PlayerIds, targetId \in PlayerIds \cup {Null} :
              Scan(socketId, targetId)
              => /\ RequiredTarget(socketId) # Null
                 /\ targetId = RequiredTarget(socketId) ]_vars

\* A scan has just been rejected in a squad that holds a confirmation
ScanRejectedWitness ==
    /\ out.op = "scan"
    /\ ~out.res.success
    /\ \E k \in DOMAIN squads :
          /\ GetCompletedScans(squads[k]) = 1
          /\ Len(squads[k].players) = 3

\* The statement of C4 as it stands: get_target answers every member of a team
\* with the next member of its team, and everybody else with null.
GetTargetInfoAlwaysNext ==
    [][ \A socketId \in PlayerIds :
          GetTargetOp(socketId)
          => out'.res.target = RequiredTarget(socketId) ]_vars

\* C4: Squad.getTarget gives the member at position i the member at position
\* (i + 1) mod N and gives Null to an id that is not on the list; getTargetInfo
\* answers with that target when the caller's registry record exists and
\* refers to the squad, and with null otherwise.
GetTargetIsNextMember ==
    [][ out'.op = "get_target" =>
        /\ \A k \in DOMAIN squads, id \in PlayerIds :
             GetTarget(squads[k], id) =
                IF \E i \in 1..Len(squads[k].players) :
                      squads[k].players[i].id = id
                THEN RequiredTarget(id)
                ELSE Null
        /\ \A socketId \in PlayerIds :
             GetTargetOp(socketId)
             => out'.res.target =
                   IF /\ socketId \in DOMAIN players
                      /\ players[socketId].squad \in DOMAIN squads
                   THEN GetTarget(squads[players[socketId].squad], socketId)
                   ELSE Null ]_vars

\* The last member of a squad of three has been told its target
GetTargetWitness ==
    /\ out.op = "get_target"
    /\ out.res.target # Null
    /\ \E k \in DOMAIN squads :
          /\ Len(squads[k].players) = 3
          /\ out.res.target = squads[k].players[1].id
          /\ squads[k].players[3].connected
          /\ ~squads[k].players[2].connected

-----------------------------------------------------------------------------
(* The liveness sweep, on the clock of the heartbeats *)

\* One squad of two members, formed at time 0
InitSweep == Formed(2, 2, [i \in 2..2 |-> i])

\* The clock advances by the period of the client's heartbeat
NextSweep ==
    \/ \E socketId \in 1..2, targetId \in 1..2 : Scan(socketId, targetId)
    \/ \E socketId \in 1..2 : Heartbeat(socketId)
    \/ \E socketId \in 1..2 : Disconnect(socketId)
    \/ CheckTimeouts
    \/ Tick(HeartbeatMs, MaxSweepTicks * HeartbeatMs)

SpecSweep == InitSweep /\ [][NextSweep]_vars

\* The members of a squad that have been disconnected for longer than the
\* grace period and have no recorded confirmation
StaleUnconfirmed(squad) ==
    { squad.players[i].id : i \in
        { j \in 1..Len(squad.players) :
            /\ ~squad.players[j].connected
            /\ hist.disconnectedAt[squad.players[j].id] # -1
            /\ now - hist.disconnectedAt[squad.players[j].id] > gracePeriodsMs
            /\ ~Has(squad.scanMap, squad.players[j].id) } }

\* C10: a sweep records member -> target(member) for exactly the members that
\* have been disconnected for longer than the grace period and have no
\* recorded confirmation, and announces exactly those; no member is announced
\* twice over the sweeps of a round.
SweepResolvesExactlyStale ==
    [][ CheckTimeouts =>
        /\ out'.res.resolved =
              UNION { StaleUnconfirmed(squads[k]) : k \in DOMAIN squads }
        /\ \A k \in DOMAIN squads :
              \A i \in 1..Len(squads[k].players) :
                 LET id == squads[k].players[i].id
                 IN  IF id \in StaleUnconfirmed(squads[k])
                     THEN /\ Has(squads'[k].scanMap, id)
                          /\ squads'[k].scanMap[id] = GetTarget(squads[k], id)
                     ELSE Get(squads'[k].scanMap, id) = Get(squads[k].scanMap, id)
        /\ \A id \in PlayerIds : hist'.autoResolved[id] <= 1 ]_vars

-----------------------------------------------------------------------------
(* The getaway: code verification and finish positions *)

\* The lower-case letters, in the order of the letters of KeypadChars
LowerChars == << "a", "b", "c", "d", "e", "f", "g", "h" >>

\* String.prototype.toUpperCase, one character
ToUpperChar(c) ==
    IF \E i \in DOMAIN LowerChars : LowerChars[i] = c
    THEN KeypadChars[CHOOSE i \in DOMAIN LowerChars : LowerChars[i] = c]
    ELSE c

\* String.prototype.toUpperCase
ToUpperCase(str) == [ i \in DOMAIN str |-> ToUpperChar(str[i]) ]

\* A verifyCode that compares the submitted string as it is
VerifyCodeFnCaseSensitive(squadId, code) ==
    IF ~Has(codeFragments, squadId) THEN FALSE
    ELSE code = codeFragments[squadId]

\* GameManager.verifyCode: fragments.join('') is the sequence of the
\* one-character fragments
VerifyCodeFn(squadId, code) ==
    IF ~Has(codeFragments, squadId) THEN FALSE
    ELSE ToUpperCase(code) = codeFragments[squadId]

\* The answer of verify_code
VerifyResult(success, position) ==
    [ success |-> success, position |-> position,
      isWinner |-> success /\ position = 1 ]

\* A verify_code that processes every submission, finished squad or not
VerifyCodeNoEarlyReturn(socketId, code) ==
    LET squadId == SquadOf(socketId)
        ok == squadId # Null /\ VerifyCodeFn(squadId, code)
        position == finishCounter + 1
    IN  /\ finishCounter' = IF ok THEN position ELSE finishCounter
        /\ squads' = IF ok
                     THEN [squads EXCEPT ![squadId] =
                              MarkComplete(@, position, now)]
                     ELSE squads
        /\ hist' = IF ok THEN [hist EXCEPT !.issued = Append(@, position)]
                   ELSE hist
        /\ out' = [ op |-> "verify_code", id |-> Null, arg |-> Null,
                    res |-> VerifyResult(ok, IF ok THEN position ELSE Null) ]
        /\ UNCHANGED << phase, squadSize, players, codeFragments,
                        tumblerStates, tumblerSyncStart, now, squadFragments,
                    tumblerAngles, peer >>

\* socket.on('verify_code'): a finished squad gets its stored position back;
\* otherwise a matching code takes the next value of the finish counter
VerifyCode(socketId, code) ==
    LET squadId == SquadOf(socketId)
        finished == squadId # Null /\ squads[squadId].finishPosition # Null
        ok == squadId # Null /\ ~finished /\ VerifyCodeFn(squadId, code)
        position == finishCounter + 1
    IN  /\ finishCounter' = IF ok THEN position ELSE finishCounter
        /\ squads' = IF ok
                     THEN [squads EXCEPT ![squadId] =
                              MarkComplete(@, position, now)]
                     ELSE squads
        /\ hist' = IF ok THEN [hist EXCEPT !.issued = Append(@, position)]
                   ELSE hist
        /\ out' = [ op |-> "verify_code", id |-> Null, arg |-> Null,
                    res |-> CASE finished ->
                                   VerifyResult(TRUE,
                                                squads[squadId].finishPosition)
                              [] ok -> VerifyResult(TRUE, position)
                              [] OTHER -> VerifyResult(FALSE, Null) ]
        /\ UNCHANGED << phase, squadSize, players, codeFragments,
                        tumblerStates, tumblerSyncStart, now, squadFragments,
                    tumblerAngles, peer >>

\* The strings a player submits: a secret, the same in lower and mixed case,
\* another secret, a shorter string and a longer one
CodeInputs ==
    { << "A", "B" >>, << "a", "b" >>, << "a", "B" >>, << "B", "A" >>,
      << "A" >>, << "A", "B", "A" >> }

\* The secrets drawn for a squad of two: "AB" and "BA"
SecretDraws == { << 1, 2 >>, << 2, 1 >> }

\* Two squads of two members, formed at time 0
InitFinish == \E draws \in SomeDraws(4) : Formed(4, 2, draws)

\* The game master moves the phase, also back to chain, which forms the squads
\* again; the players submit codes until MaxIssued positions are issued
NextFinish ==
    \/ \E newPhase \in {"heist", "getaway"} :
          SetPhaseDrawing(newPhase, SecretDraws, {1}, {0})
    \/ \E draws \in SomeDraws(Cardinality(DOMAIN players)) :
          /\ phase # "chain"
          /\ SetPhase("chain", [NoDraws EXCEPT !.draws = draws])
    \/ \E socketId \in 1..4, code \in CodeInputs :
          /\ VerifyCode(socketId, code)
          /\ finishCounter' <= MaxIssued
    \/ Tick(HeartbeatMs, MaxFinishTicks * HeartbeatMs)

SpecFinish == InitFinish /\ [][NextFinish]_vars

-----------------------------------------------------------------------------
(* Finish positions *)

\* The squads that hold a finish position
Finished == {k \in DOMAIN squads : squads[k].finishPosition # Null}

\* C5: the finish positions are issued as 1, 2, 3, ... and in every reachable
\* state the squads that hold a position hold pairwise distinct values that
\* together are exactly 1..k, k being the finish counter.
FinishPositionsAreOneToK ==
    /\ hist.issued = [ i \in 1..finishCounter |-> i ]
    /\ \A k1, k2 \in Finished :
          squads[k1].finishPosition = squads[k2].finishPosition => k1 = k2
    /\ { squads[k].finishPosition : k \in Finished } = 1..finishCounter

\* C6: a correct code submitted again by any member of a squad that holds a
\* finish position is answered with that stored position, and the finish
\* counter, the squad's position and its completion time stay as they are.
ResubmitReturnsStoredPosition ==
    [][ out'.op = "verify_code" =>
        \A socketId \in PlayerIds, code \in CodeInputs :
          LET squadId == SquadOf(socketId)
          IN  (/\ squadId # Null
               /\ squadId \in Finished
               /\ Has(codeFragments, squadId)
               /\ ToUpperCase(code) = codeFragments[squadId]
               /\ VerifyCode(socketId, code))
              => /\ out'.res.success
                 /\ out'.res.position = squads[squadId].finishPosition
                 /\ finishCounter' = finishCounter
                 /\ squads'[squadId].finishPosition
                       = squads[squadId].finishPosition
                 /\ squads'[squadId].completedAt = squads[squadId].completedAt
                 /\ hist'.issued = hist.issued ]_vars

\* A squad has been answered with position 1 after position 2 was issued, at
\* a time later than its completion
ResubmitWitness ==
    /\ out.op = "verify_code"
    /\ out.res.success
    /\ out.res.position = 1
    /\ finishCounter = 2
    /\ \E k \in Finished : /\ squads[k].finishPosition = 1
                           /\ squads[k].completedAt < now

\* The submitted string equals the secret when the case of the letters is
\* ignored
MatchesSecret(code, fragments) ==
    /\ Len(code) = Len(fragments)
    /\ \A i \in 1..Len(code) :
          \/ code[i] = fragments[i]
          \/ \E j \in DOMAIN LowerChars :
                code[i] = LowerChars[j] /\ fragments[i] = KeypadChars[j]

\* The statement of C7 as it stands: a submission succeeds only when the
\* submitted string matches the squad's secret, in every state of the squad.
VerifySucceedsOnlyOnMatch ==
    [][ out'.op = "verify_code" =>
        \A socketId \in PlayerIds, code \in CodeInputs :
          (/\ out'.res.success
           /\ ~(/\ SquadOf(socketId) # Null
                /\ Has(codeFragments, SquadOf(socketId))
                /\ MatchesSecret(code, codeFragments[SquadOf(socketId)]))
           => ~VerifyCode(socketId, code)) ]_vars

\* C7: GameManager.verifyCode is true exactly for a string that matches the
\* squad's secret when case is ignored, and false for a squad with no secret;
\* a submission for a squad that holds no finish position succeeds exactly on
\* such a match and a submission for a squad that holds one succeeds with the
\* stored position whatever the string; a player with no squad fails.
VerifyOutcome ==
    [][ out'.op = "verify_code" =>
        /\ \A k \in DOMAIN squads, code \in CodeInputs :
              VerifyCodeFn(k, code)
                 <=> /\ Has(codeFragments, k)
                     /\ MatchesSecret(code, codeFragments[k])
        /\ \A k \in (1..MaxPlayers) \ DOMAIN codeFragments, code \in CodeInputs :
              ~VerifyCodeFn(k, code)
        /\ \A socketId \in PlayerIds, code \in CodeInputs :
              LET squadId == SquadOf(socketId)
                  expected ==
                     /\ squadId # Null
                     /\ \/ squadId \in Finished
                        \/ /\ Has(codeFragments, squadId)
                           /\ MatchesSecret(code, codeFragments[squadId])
              IN  \/ out'.res.success = expected
                  \/ ~VerifyCode(socketId, code) ]_vars

\* A wrong string has been rejected for a squad that holds no position while
\* another squad holds one, and a lower-case string would match its secret
VerifyRejectedWitness ==
    /\ out.op = "verify_code"
    /\ ~out.res.success
    /\ phase = "getaway"
    /\ Finished # {}
    /\ \E k \in (DOMAIN squads) \ Finished :
          /\ Has(codeFragments, k)
          /\ MatchesSecret(<< "a", "B" >>, codeFragments[k])

-----------------------------------------------------------------------------
(* The tumbler: the synchronization gate of a squad *)

\* A test that wants more than the hold duration
HoldReachedStrict(syncMs) == syncMs > HoldSeconds * 1000

\* syncTime >= 3, syncTime being the milliseconds of hold divided by 1000
HoldReached(syncMs) == syncMs >= HoldSeconds * 1000

\* A broken sync that leaves the start of the hold where it is
SyncStartKeptAfterBreak(squadId) == tumblerSyncStart

\* The sync start after an evaluation that finds the squad not synced
SyncStartAfterBreak(squadId) ==
    IF Has(tumblerSyncStart, squadId)
    THEN Delete(tumblerSyncStart, squadId)
    ELSE tumblerSyncStart

\* The states of a squad with nothing dropped
FreshStatesKeepStale(states, t) ==
    states

\* The states of a squad without the entries older than the staleness window
FreshStates(states, t) ==
    [ id \in {x \in DOMAIN states : ~(t - states[x].timestamp > StaleMs)}
        |-> states[id] ]

\* socket.on('tumbler_state'): the report is stored, stale entries are
\* dropped and the gate is evaluated; res is the tumbler_sync message, fired
\* says whether view_change 'getaway' went to the members, reset whether a
\* running hold was dropped ("sync broken - timer reset")
TumblerState(socketId, atSweetSpot) ==
    LET squadId == SquadOf(socketId)
        prior == IF Has(tumblerStates, squadId) THEN tumblerStates[squadId]
                 ELSE EmptyMap
        squadStates ==
            FreshStates(Put(prior, socketId,
                            [ atSweetSpot |-> atSweetSpot,
                              timestamp |-> now ]), now)
        teamSize == Len(squads[squadId].players)
        playersAtSweetSpot ==
            Cardinality({id \in DOMAIN squadStates :
                            squadStates[id].atSweetSpot})
        allSynced == /\ Cardinality(DOMAIN squadStates) = teamSize
                     /\ playersAtSweetSpot = teamSize
        start == IF Has(tumblerSyncStart, squadId)
                 THEN tumblerSyncStart[squadId] ELSE now
        syncMs == now - start
        fired == allSynced /\ HoldReached(syncMs)
    IN  IF squadId = Null
        THEN /\ out' = [ op |-> "tumbler_state", id |-> Null, arg |-> Null,
                         res |-> [ evaluated |-> FALSE,
                                   reset |-> FALSE,
                                   synced |-> FALSE,
                                   syncTime |-> 0,
                                   playersReady |-> 0,
                                   fired |-> FALSE ] ]
             /\ UNCHANGED << phase, squadSize, players, squads, codeFragments,
                             finishCounter, tumblerStates, tumblerSyncStart,
                             now, hist, squadFragments,
                    tumblerAngles, peer >>
        ELSE /\ tumblerStates' =
                  IF fired THEN Delete(tumblerStates, squadId)
                  ELSE Put(tumblerStates, squadId, squadStates)
             /\ tumblerSyncStart' =
                  CASE fired -> Delete(tumblerSyncStart, squadId)
                    [] allSynced -> Put(tumblerSyncStart, squadId, start)
                    [] OTHER -> SyncStartAfterBreak(squadId)
             /\ out' = [ op |-> "tumbler_state", id |-> Null, arg |-> Null,
                         res |-> [ evaluated |-> TRUE,
                                   reset |-> ~allSynced
                                             /\ Has(tumblerSyncStart, squadId),
                                   synced |-> allSynced,
                                   syncTime |-> IF allSynced THEN syncMs ELSE 0,
                                   playersReady |-> playersAtSweetSpot,
                                   fired |-> fired ] ]
             /\ hist' = [hist EXCEPT
                  !.holdSince[squadId] =
                      CASE fired \/ ~allSynced -> -1
                        [] @ = -1 -> now
                        [] OTHER -> @,
                  !.fires[squadId] = IF fired THEN @ + 1 ELSE @]
             /\ UNCHANGED << phase, squadSize, players, squads, codeFragments,
                             finishCounter, now, squadFragments,
                    tumblerAngles, peer >>

\* The step of the clock at the tumbler: half the staleness window
GateTickMs == StaleMs \div 2

\* One squad of three members, formed at time 0
InitGate == Formed(3, 3, [i \in 2..3 |-> i])

NextGate ==
    \/ \E socketId \in PlayerIds, atSweetSpot \in BOOLEAN :
          TumblerState(socketId, atSweetSpot)
    \/ Tick(GateTickMs, MaxGateTicks * GateTickMs)

SpecGate == InitGate /\ [][NextGate]_vars

-----------------------------------------------------------------------------
(* The synchronization gate *)

\* With the report `atSweetSpot` of `socketId` counted, every member of the
\* squad has a report of the qualifying state that is no older than the
\* staleness window
AllQualifying(squadId, socketId, atSweetSpot) ==
    \A i \in 1..Len(squads[squadId].players) :
        LET id == squads[squadId].players[i].id
        IN  IF id = socketId
            THEN atSweetSpot
            ELSE /\ Has(tumblerStates, squadId)
                 /\ Has(tumblerStates[squadId], id)
                 /\ tumblerStates[squadId][id].atSweetSpot
                 /\ now - tumblerStates[squadId][id].timestamp <= StaleMs

\* The milliseconds the gate of a squad has been satisfied at every
\* evaluation, up to an evaluation at the present time
HeldMs(squadId) ==
    IF hist.holdSince[squadId] = -1 THEN 0 ELSE now - hist.holdSince[squadId]

\* C8: while all members of a squad keep reporting the qualifying state, each
\* report fresher than the staleness window, the success signal goes out at
\* the first evaluation at which the hold has lasted 3.0 s or more, at no
\* evaluation before, and once: the evaluation that fires ends the hold.
GateFiresAtFullHold ==
    [][ out'.op = "tumbler_state" =>
        \A socketId \in PlayerIds, atSweetSpot \in BOOLEAN :
          (SquadOf(socketId) # Null /\ TumblerState(socketId, atSweetSpot))
          => LET squadId == SquadOf(socketId)
                 satisfied == AllQualifying(squadId, socketId, atSweetSpot)
             IN  /\ out'.res.fired
                       <=> (satisfied /\ HeldMs(squadId) >= HoldSeconds * 1000)
                 /\ out'.res.fired
                       => /\ hist'.fires[squadId] = hist.fires[squadId] + 1
                          /\ ~Has(tumblerSyncStart', squadId)
                          /\ ~Has(tumblerStates', squadId)
                 /\ (satisfied /\ ~out'.res.fired)
                       => /\ out'.res.synced
                          /\ out'.res.syncTime = HeldMs(squadId)
                          /\ out'.res.syncTime < HoldSeconds * 1000
                          /\ tumblerSyncStart'[squadId] = now - HeldMs(squadId)
                          /\ hist'.fires[squadId] = hist.fires[squadId] ]_vars

\* The gate of a squad of three has fired once, 3.0 s after the hold began
GateFiredWitness ==
    /\ out.op = "tumbler_state"
    /\ out.res.evaluated
    /\ out.res.fired
    /\ out.res.syncTime = HoldSeconds * 1000
    /\ \E k \in DOMAIN squads :
          Len(squads[k].players) = 3 /\ hist.fires[k] = 1

\* C9: an evaluation that finds a false report, or a report gone stale or
\* missing, clears the hold start of the squad, reports zero elapsed and does
\* not fire; the next satisfied evaluation starts the hold from zero, and a
\* signal goes out only when every evaluation of the last 3.0 s or more found
\* the gate satisfied.
GateResetsOnBreak ==
    [][ out'.op = "tumbler_state" =>
        \A socketId \in PlayerIds, atSweetSpot \in BOOLEAN :
          (SquadOf(socketId) # Null /\ TumblerState(socketId, atSweetSpot))
          => LET squadId == SquadOf(socketId)
                 satisfied == AllQualifying(squadId, socketId, atSweetSpot)
             IN  /\ ~satisfied
                       => /\ ~Has(tumblerSyncStart', squadId)
                          /\ out'.res.reset = Has(tumblerSyncStart, squadId)
                          /\ hist'.holdSince[squadId] = -1
                          /\ ~out'.res.synced
                          /\ out'.res.syncTime = 0
                          /\ ~out'.res.fired
                          /\ hist'.fires = hist.fires
                 /\ (satisfied /\ ~Has(tumblerSyncStart, squadId))
                       => /\ out'.res.syncTime = 0
                          /\ ~out'.res.fired
                          /\ tumblerSyncStart'[squadId] = now
                 /\ out'.res.fired
                       => /\ hist.holdSince[squadId] # -1
                          /\ now - hist.holdSince[squadId]
                                >= HoldSeconds * 1000 ]_vars

\* A running hold has just been dropped because a report had gone stale: the
\* reporter is at the qualifying state and so is every report that is left
GateBrokenWitness ==
    /\ out.op = "tumbler_state"
    /\ out.res.evaluated
    /\ out.res.reset
    /\ ~out.res.synced
    /\ out.res.playersReady = 1
    /\ \E k \in DOMAIN squads :
          /\ ~Has(tumblerSyncStart, k)
          /\ Cardinality(DOMAIN tumblerStates[k]) = 1

-----------------------------------------------------------------------------
(* Confirmations over a round *)

\* C11: the number of confirmations a squad has recorded never decreases
\* over a round, whatever scans (accepted or rejected), disconnects,
\* heartbeats and sweeps happen.
CompletedScansNeverDecrease ==
    [][ \A k \in DOMAIN squads :
          /\ k \in DOMAIN squads'
          /\ GetCompletedScans(squads'[k]) >= GetCompletedScans(squads[k])
          /\ \A id \in DOMAIN squads[k].scanMap :
                /\ id \in DOMAIN squads'[k].scanMap
                /\ squads'[k].scanMap[id] = squads[k].scanMap[id] ]_vars

\* A member that had confirmed its target has just disconnected, and the
\* squad of three still counts two confirmations
ScansKeptWitness ==
    /\ out.op = "disconnect"
    /\ \E k \in DOMAIN squads :
          /\ Len(squads[k].players) = 3
          /\ GetCompletedScans(squads[k]) = 2
          /\ \E i \in 1..3 :
                /\ ~squads[k].players[i].connected
                /\ Has(squads[k].scanMap, squads[k].players[i].id)

-----------------------------------------------------------------------------
(* Team size *)

\* C13: once formed, a squad's member list has the length of its fixed target
\* size in every later state, also after members disconnect, lose their
\* registry record or are auto-resolved.
TeamsAlwaysFull ==
    \A k \in DOMAIN squads :
        /\ Len(squads[k].players) = squads[k].teamSize
        /\ squads[k].teamSize = squads[k].maxSize
        /\ squads[k].teamSize \in MinTeamSize..MaxTeamSize

\* A member of a squad of three has disconnected, lost its registry record
\* and been auto-resolved, and is still on the list
TeamFullWitness ==
    \E k \in DOMAIN squads :
        /\ Len(squads[k].players) = 3
        /\ \E i \in 1..3 :
              LET id == squads[k].players[i].id
              IN  /\ ~squads[k].players[i].connected
                  /\ ~Has(players, id)
                  /\ hist.autoResolved[id] = 1

-----------------------------------------------------------------------------
(* Fragments, tumbler angles and the reset *)

\* The answer of get_fragment to a player with no squad
FragmentFallback == [ char |-> "?", position |-> 1, codeLength |-> 4 ]

\* A get_fragment that gives a member the position it has in its squad
GetFragmentByMemberOrder(socketId, draw) ==
    LET squadId == SquadOf(socketId)
        missing == \/ ~Has(codeFragments, squadId)
                   \/ Len(codeFragments[squadId]) = 0
        fragments == IF missing
                     THEN GenerateCodeFragments(Len(squads[squadId].players),
                                                draw)
                     ELSE codeFragments[squadId]
        codeLength == Len(fragments)
        squadData == IF Has(squadFragments, squadId)
                     THEN squadFragments[squadId]
                     ELSE [ assignments |-> EmptyMap, counter |-> 0 ]
        known == Has(squadData.assignments, socketId)
        position == FindIndex(squads[squadId], socketId) - 1
        assignment ==
            IF known
            THEN [squadData.assignments[socketId]
                    EXCEPT !.codeLength = codeLength]
            ELSE [ char |-> fragments[position + 1],
                   position |-> position + 1,
                   codeLength |-> codeLength ]
    IN  IF squadId = Null
        THEN /\ out' = [ op |-> "get_fragment", id |-> Null, arg |-> Null,
                         res |-> FragmentFallback ]
             /\ UNCHANGED << phase, squadSize, players, squads, codeFragments,
                             finishCounter, tumblerStates, tumblerSyncStart,
                             squadFragments, tumblerAngles, now, hist, peer >>
        ELSE /\ codeFragments' = IF missing
                                 THEN Put(codeFragments, squadId, fragments)
                                 ELSE codeFragments
             /\ squadFragments' =
                  Put(squadFragments, squadId,
                      [ assignments |->
                            Put(squadData.assignments, socketId, assignment),
                        counter |-> IF known THEN squadData.counter
                                    ELSE squadData.counter + 1 ])
             /\ out' = [ op |-> "get_fragment", id |-> Null, arg |-> Null,
                         res |-> assignment ]
             /\ UNCHANGED << phase, squadSize, players, squads, finishCounter,
                             tumblerStates, tumblerSyncStart, tumblerAngles,
                             now, hist, peer >>

\* socket.on('get_fragment'): the secret is generated when the squad has none
\* (draw holds the random characters of that generation); a socket that has
\* an assignment gets it again, a new one gets position counter % codeLength
GetFragment(socketId, draw) ==
    LET squadId == SquadOf(socketId)
        missing == \/ ~Has(codeFragments, squadId)
                   \/ Len(codeFragments[squadId]) = 0
        fragments == IF missing
                     THEN GenerateCodeFragments(Len(squads[squadId].players),
                                                draw)
                     ELSE codeFragments[squadId]
        codeLength == Len(fragments)
        squadData == IF Has(squadFragments, squadId)
                     THEN squadFragments[squadId]
                     ELSE [ assignments |-> EmptyMap, counter |-> 0 ]
        known == Has(squadData.assignments, socketId)
        position == squadData.counter % codeLength
        assignment ==
            IF known
            THEN [squadData.assignments[socketId]
                    EXCEPT !.codeLength = codeLength]
            ELSE [ char |-> fragments[position + 1],
                   position |-> position + 1,
                   codeLength |-> codeLength ]
    IN  IF squadId = Null
        THEN /\ out' = [ op |-> "get_fragment", id |-> Null, arg |-> Null,
                         res |-> FragmentFallback ]
             /\ UNCHANGED << phase, squadSize, players, squads, codeFragments,
                             finishCounter, tumblerStates, tumblerSyncStart,
                             squadFragments, tumblerAngles, now, hist, peer >>
        ELSE /\ codeFragments' = IF missing
                                 THEN Put(codeFragments, squadId, fragments)
                                 ELSE codeFragments
             /\ squadFragments' =
                  Put(squadFragments, squadId,
                      [ assignments |->
                            Put(squadData.assignments, socketId, assignment),
                        counter |-> IF known THEN squadData.counter
                                    ELSE squadData.counter + 1 ])
             /\ out' = [ op |-> "get_fragment", id |-> Null, arg |-> Null,
                         res |-> assignment ]
             /\ UNCHANGED << phase, squadSize, players, squads, finishCounter,
                             tumblerStates, tumblerSyncStart, tumblerAngles,
                             now, hist, peer >>

\* The angle get_tumbler_config answers a player with no squad
FallbackAngle == 45

\* socket.on('get_tumbler_config'): a socket keeps the angle it was given;
\* angle is the random angle of a first request
GetTumblerConfig(socketId, angle) ==
    LET squadId == SquadOf(socketId)
        squadAngles == IF Has(tumblerAngles, squadId)
                       THEN tumblerAngles[squadId] ELSE EmptyMap
        known == Has(squadAngles, socketId)
        given == IF known THEN squadAngles[socketId] ELSE angle
    IN  IF squadId = Null
        THEN /\ out' = [ op |-> "get_tumbler_config", id |-> Null,
                         arg |-> Null,
                         res |-> [ sweetSpotAngle |-> FallbackAngle ] ]
             /\ UNCHANGED << phase, squadSize, players, squads, codeFragments,
                             finishCounter, tumblerStates, tumblerSyncStart,
                             squadFragments, tumblerAngles, now, hist, peer >>
        ELSE /\ tumblerAngles' =
                  Put(tumblerAngles, squadId, Put(squadAngles, socketId, given))
             /\ out' = [ op |-> "get_tumbler_config", id |-> Null,
                         arg |-> Null,
                         res |-> [ sweetSpotAngle |-> given ] ]
             /\ UNCHANGED << phase, squadSize, players, squads, codeFragments,
                             finishCounter, tumblerStates, tumblerSyncStart,
                             squadFragments, now, hist, peer >>

\* A reset that leaves the finish counter where it is
CounterAfterResetKept == finishCounter

\* GameManager.resetGame: global.finishCounter = 0
CounterAfterReset == 0

\* gm socket.on('reset_game'): GameManager.resetGame, then the globals of the
\* handlers are cleared
\* (hist.resetAt observes the finish counter the reset found, -1 before any)
ResetGame ==
    /\ phase' = "start"
    /\ players' = EmptyMap
    /\ squads' = << >>
    /\ codeFragments' = EmptyMap
    /\ squadSize' = DefaultSquadSize
    /\ finishCounter' = CounterAfterReset
    /\ squadFragments' = EmptyMap
    /\ tumblerStates' = EmptyMap
    /\ tumblerSyncStart' = EmptyMap
    /\ tumblerAngles' = EmptyMap
    /\ hist' = [HistInit EXCEPT !.resetAt = finishCounter]
    /\ out' = [ op |-> "reset_game", id |-> Null, arg |-> Null, res |-> Null ]
    /\ UNCHANGED << now, peer >>

-----------------------------------------------------------------------------
(* Teams formed again in a running session *)

\* Two secrets of n characters, as positions in KeypadChars: "BA.." and "AB.."
SecretsOfLength(n) ==
    { [i \in 1..n |-> 1 + (i % 2)], [i \in 1..n |-> 2 - (i % 2)] }

\* The secrets drawn for the squads as they are
SquadSecrets ==
    IF squads = << >> THEN { << >> }
    ELSE SecretsOfLength(Len(squads[1].players))

\* The team sizes the game master sends once the teams are formed
ReformSizes == {MinTeamSize, DefaultSquadSize}

\* Two squads of two members, formed at time 0
InitReform == \E draws \in SomeDraws(4) : Formed(4, 2, draws)

\* setPhase('chain') once more: the squads are formed again when the registry
\* allows it
FormAgain ==
    IF CanStartGame.valid
    THEN \E draws \in SomeDraws(Cardinality(DOMAIN players)) :
            SetPhase("chain", [NoDraws EXCEPT !.draws = draws])
    ELSE SetPhase("chain", NoDraws)

\* The squads are formed again and again while the players fetch fragments
NextReform ==
    \/ FormAgain
    \/ \E socketId \in PlayerIds, draw \in SquadSecrets :
          GetFragment(socketId, draw)

SpecReform == InitReform /\ [][NextReform]_vars


\* The symbols drawn on entering heist: one that is the correct index of the
\* first puzzle of the catalog and one that is not
HeistSymbols == {0, PuzzleCorrectIndex[1]}

\* The game master changes the team size and moves the phase, also back to
\* chain; one player fetches its fragment
NextSecret ==
    \/ \E size \in ReformSizes : SetTeamSize(size)
    \/ FormAgain
    \/ \E newPhase \in {"heist", "getaway"} :
          SetPhaseDrawing(newPhase, SquadSecrets, {1}, HeistSymbols)
    \/ \E draw \in SquadSecrets : GetFragment(1, draw)

SpecSecret == InitReform /\ [][NextSecret]_vars

\* Players come and go while the squads are formed again and again
NextRoster ==
    \/ \E socketId \in PlayerIds : Register(socketId)
    \/ \E socketId \in PlayerIds : Disconnect(socketId)
    \/ FormAgain

SpecRoster == InitReform /\ [][NextRoster]_vars

-----------------------------------------------------------------------------
(* Membership *)

\* C12: in every reachable state no player id is on the member lists of two
\* squads, nor twice on the list of one, whatever registrations, disconnects,
\* formations and re-formations happened.
AtMostOneTeam ==
    \A s1, s2 \in Seats :
        squads[s1[1]].players[s1[2]].id = squads[s2[1]].players[s2[2]].id
            => s1 = s2

\* The squads have been formed again after two of the four players left:
\* one squad of the two that stayed
AtMostOneTeamWitness ==
    /\ out.op = "set_phase"
    /\ out.res.success
    /\ hist.formations = 2
    /\ Len(squads) = 1
    /\ Cardinality(DOMAIN players) = 2

-----------------------------------------------------------------------------
(* Secrets and fragments *)

\* C14: whenever a squad has a secret, the secret has as many fragments as
\* the squad has members.
SecretLengthIsTeamSize ==
    \A k \in DOMAIN squads :
        Has(codeFragments, k)
            => Len(codeFragments[k]) = Len(squads[k].players)

\* C15: when every member of a squad has fetched its fragment, the positions
\* the members were given are pairwise distinct and together are 1..N.
FragmentPositionsCoverTeam ==
    \A k \in DOMAIN squads :
        LET N == Len(squads[k].players)
            members == { squads[k].players[i].id : i \in 1..N }
        IN  (/\ Has(squadFragments, k)
             /\ members \subseteq DOMAIN squadFragments[k].assignments)
            => LET given == squadFragments[k].assignments
               IN  /\ \A a, b \in members :
                        given[a].position = given[b].position => a = b
                   /\ { given[a].position : a \in members } = 1..N

-----------------------------------------------------------------------------
(* Validation of the game master's commands *)

\* C16: setPhase('chain') succeeds exactly when the player count is at
\* least the team size and divisible by it, and then the teams are formed
\* and the phase is chain; otherwise the result is a failure that names a
\* positive number of players, the phase, the teams and every player's team
\* reference are unchanged and no phase change is announced
ChainEntryValidated ==
    [][ (out'.op = "set_phase" /\ out'.arg = "chain") =>
          LET count == Cardinality(DOMAIN players)
          IN  IF count >= squadSize /\ count % squadSize = 0
              THEN /\ out'.res.success
                   /\ out'.res.phaseChange
                   /\ phase' = "chain"
                   /\ Len(squads') = count \div squadSize
                   /\ \A id \in DOMAIN players' :
                         players'[id].squad \in DOMAIN squads'
              ELSE /\ ~out'.res.success
                   /\ out'.res.needed > 0
                   /\ ~out'.res.phaseChange
                   /\ phase' = phase
                   /\ squads' = squads
                   /\ players' = players ]_vars

\* Enough players for a team but not for even teams: the entry is refused
ChainRejectedWitness ==
    /\ out.op = "set_phase"
    /\ out.arg = "chain"
    /\ ~out.res.success
    /\ Cardinality(DOMAIN players) > squadSize
    /\ Cardinality(DOMAIN players) % squadSize # 0
    /\ phase # "chain"

\* C17: setTeamSize(n) sets the configured size to n when n is within
\* MinTeamSize..MaxTeamSize and leaves it alone otherwise; the teams already
\* formed and the players' team references are the same after the call
TeamSizeInRangeOnly ==
    [][ out'.op = "set_team_size" =>
          /\ squadSize' = IF out'.arg \in MinTeamSize..MaxTeamSize
                          THEN out'.arg
                          ELSE squadSize
          /\ squads' = squads
          /\ players' = players ]_vars

\* A size above the range is sent while teams of the smallest size exist
TeamSizeRefusedWitness ==
    /\ out.op = "set_team_size"
    /\ out.arg > MaxTeamSize
    /\ squadSize = MinTeamSize
    /\ Len(squads) > 0
    /\ \A k \in DOMAIN squads : squads[k].teamSize = MinTeamSize

-----------------------------------------------------------------------------
(* The reset of the session *)

\* The sockets of a session of one team of the smallest size
ResetPlayers == 1..MinTeamSize

\* The random angle drawn for a first get_tumbler_config
ResetAngles == {90}

\* The secret drawn for the team: "AB.."
ResetSecrets == { [i \in 1..MinTeamSize |-> i] }

\* The shuffle that swaps nothing
SameOrder == [i \in 2..Cardinality(DOMAIN players) |-> i]

\* One team plays to the end, the game master resets the session at any
\* moment, and the players register and play again
NextReset ==
    \/ SetPhaseDrawing("heist", ResetSecrets, {1}, {0})
    \/ \E socketId \in ResetPlayers, draw \in ResetSecrets :
          GetFragment(socketId, draw)
    \/ \E socketId \in ResetPlayers, angle \in ResetAngles :
          GetTumblerConfig(socketId, angle)
    \/ \E socketId \in ResetPlayers : TumblerState(socketId, TRUE)
    \/ \E socketId \in ResetPlayers, code \in ResetSecrets :
          /\ VerifyCode(socketId, GenerateCodeFragments(Len(code), code))
          /\ finishCounter' <= MaxIssued
    \/ ResetGame
    \/ \E socketId \in ResetPlayers : Register(socketId)
    \/ SetTeamSize(MinTeamSize)
    \/ SetPhase("chain", [NoDraws EXCEPT !.draws = SameOrder])

InitReset == Formed(MinTeamSize, MinTeamSize, [i \in 2..MinTeamSize |-> i])

SpecReset == InitReset /\ [][NextReset]_vars

\* C18: a reset leaves the phase start, the player and team registries
\* empty, no secret, fragment assignment, gate hold state or angle
\* assignment, the default team size and the finish counter at zero; the
\* first team to finish after a reset receives position 1
ResetClearsSession ==
    [][ /\ out'.op = "reset_game" =>
              /\ phase' = "start"
              /\ players' = EmptyMap
              /\ squads' = << >>
              /\ codeFragments' = EmptyMap
              /\ squadFragments' = EmptyMap
              /\ tumblerStates' = EmptyMap
              /\ tumblerSyncStart' = EmptyMap
              /\ tumblerAngles' = EmptyMap
              /\ squadSize' = DefaultSquadSize
              /\ finishCounter' = 0
        /\ (/\ out'.op = "verify_code"
            /\ hist.resetAt >= 0
            /\ hist.issued = << >>
            /\ finishCounter' # finishCounter) =>
              /\ out'.res.position = 1
              /\ \E k \in DOMAIN squads' : squads'[k].finishPosition = 1 ]_vars

\* A session that had issued a finish position, secrets, fragments, gate
\* reports and angles was reset, and the first team to finish since holds
\* position 1
ResetWitness ==
    /\ hist.resetAt >= 1
    /\ out.op = "verify_code"
    /\ out.res.success
    /\ out.res.position = 1
    /\ hist.issued = << 1 >>
    /\ finishCounter = 1

-----------------------------------------------------------------------------
(* The phases *)

\* The transitions of the phase state machine, the reset aside
PhaseMachine ==
    { << "start", "tutorial" >>, << "tutorial", "start" >>,
      << "start", "lobby" >>, << "lobby", "chain" >>,
      << "chain", "heist" >>, << "heist", "getaway" >>,
      << "getaway", "complete" >> }

\* C19: every change of the session phase is a transition of the phase
\* state machine or the reset back to start
PhaseFollowsMachine ==
    [][ phase' # phase =>
          \/ << phase, phase' >> \in PhaseMachine
          \/ out'.op = "reset_game" /\ phase' = "start" ]_vars

\* C20: after setPhase('heist') every formed team has a puzzle of the
\* catalog, its recorded correct index is that puzzle's correct index, it
\* has a secret and its minigame-state map is empty
HeistPreparesTeams ==
    (out.op = "set_phase" /\ out.arg = "heist") =>
        \A k \in DOMAIN squads :
            /\ squads[k].puzzleId \in DOMAIN PuzzleCorrectIndex
            /\ squads[k].correctSymbol = PuzzleCorrectIndex[squads[k].puzzleId]
            /\ Has(codeFragments, k)
            /\ squads[k].minigameStates = EmptyMap

-----------------------------------------------------------------------------
(* The signal jammer *)

\* The progress a matching guess adds
GuessProgress == 25

\* GameManager.handleSignalJammerGuess: squad.correctSymbol || 0
CorrectSymbolOf(squad) == squad.correctSymbol

\* A guess that is credited to every squad whose symbol it matches
SignalJammerGuessForAll(socketId, symbolIndex) ==
    LET squadId == SquadOf(socketId)
        match == squadId # Null /\ symbolIndex = CorrectSymbolOf(squads[squadId])
        after == IF match THEN UpdateProgress(squads[squadId], GuessProgress)
                 ELSE Null
    IN  /\ squads' = IF match
                     THEN [ k \in DOMAIN squads |->
                              IF symbolIndex = CorrectSymbolOf(squads[k])
                              THEN UpdateProgress(squads[k], GuessProgress)
                              ELSE squads[k] ]
                     ELSE squads
        /\ out' = [ op |-> "signal_jammer_guess", id |-> socketId,
                    arg |-> symbolIndex,
                    res |-> [ success |-> match,
                              squadProgress |-> IF match THEN after.progress
                                                ELSE Null ] ]
        /\ UNCHANGED << phase, squadSize, players, codeFragments,
                        finishCounter, tumblerStates, tumblerSyncStart,
                        squadFragments, tumblerAngles, now, hist, peer >>

\* socket.on('signal_jammer_guess'): GameManager.handleSignalJammerGuess
SignalJammerGuess(socketId, symbolIndex) ==
    LET squadId == SquadOf(socketId)
        match == squadId # Null /\ symbolIndex = CorrectSymbolOf(squads[squadId])
        after == IF match THEN UpdateProgress(squads[squadId], GuessProgress)
                 ELSE Null
    IN  /\ squads' = IF match THEN [squads EXCEPT ![squadId] = after]
                     ELSE squads
        /\ out' = [ op |-> "signal_jammer_guess", id |-> socketId,
                    arg |-> symbolIndex,
                    res |-> [ success |-> match,
                              squadProgress |-> IF match THEN after.progress
                                                ELSE Null ] ]
        /\ UNCHANGED << phase, squadSize, players, codeFragments,
                        finishCounter, tumblerStates, tumblerSyncStart,
                        squadFragments, tumblerAngles, now, hist, peer >>

\* socket.on('get_puzzle'): a squad without a puzzle gets one of the catalog
\* on demand, with that puzzle's correct index
GetPuzzle(socketId, puzzle) ==
    LET squadId == SquadOf(socketId)
        assign == squadId # Null /\ squads[squadId].puzzleId = Null
    IN  /\ squads' = IF assign
                     THEN [squads EXCEPT
                             ![squadId].puzzleId = puzzle,
                             ![squadId].correctSymbol =
                                 PuzzleCorrectIndex[puzzle]]
                     ELSE squads
        /\ out' = [ op |-> "get_puzzle", id |-> socketId, arg |-> Null,
                    res |-> IF squadId = Null THEN Null
                            ELSE squads'[squadId].puzzleId ]
        /\ UNCHANGED << phase, squadSize, players, codeFragments,
                        finishCounter, tumblerStates, tumblerSyncStart,
                        squadFragments, tumblerAngles, now, hist, peer >>

\* The puzzles drawn: the first two of the catalog
JammerPuzzles == {1, 2}

\* The symbols guessed: the correct indices of those puzzles and the symbol
\* the heist draws besides
JammerGuesses == { PuzzleCorrectIndex[p] : p \in JammerPuzzles } \cup {0}

\* One team of the smallest size in the heist: the game master enters the
\* heist, the members fetch the puzzle and guess, a member leaves
NextJammer ==
    \/ \E puzzle \in [DOMAIN squads -> JammerPuzzles],
          symbol \in [DOMAIN squads -> HeistSymbols] :
            SetPhase("heist", [ draws |-> << >>,
                                codes |-> [k \in DOMAIN squads |->
                                             [i \in 1..MinTeamSize |-> i]],
                                puzzle |-> puzzle, symbol |-> symbol ])
    \/ \E socketId \in ResetPlayers, puzzle \in JammerPuzzles :
          GetPuzzle(socketId, puzzle)
    \/ \E socketId \in ResetPlayers, symbolIndex \in JammerGuesses :
          SignalJammerGuess(socketId, symbolIndex)
    \/ \E socketId \in ResetPlayers : Disconnect(socketId)

SpecJammer == InitReset /\ [][NextJammer]_vars

\* C21: a guess by a member of a team with an assigned puzzle that equals
\* the puzzle's correct index adds 25 to the team's progress (at most 100)
\* and is answered with success and the new progress; any other guess is
\* answered with failure and leaves everything as it is
GuessMatchesPuzzle ==
    [][ (/\ out'.op = "signal_jammer_guess"
         /\ SquadOf(out'.id) # Null
         /\ squads[SquadOf(out'.id)].puzzleId # Null) =>
          LET squadId == SquadOf(out'.id)
          IN  IF out'.arg = PuzzleCorrectIndex[squads[squadId].puzzleId]
              THEN /\ out'.res.success
                   /\ squads'[squadId].progress =
                        Min(100, squads[squadId].progress + GuessProgress)
                   /\ out'.res.squadProgress = squads'[squadId].progress
              ELSE /\ ~out'.res.success
                   /\ UNCHANGED progVars ]_vars

-----------------------------------------------------------------------------
(* The leaderboard and the advance of a team *)

\* GameManager.getLeaderboard: the switch over squad.currentView
ProgressPercent(view) ==
    CASE view = "lobby" -> 0
      [] view = "chain" -> 10
      [] view = "scanner" -> 15
      [] view = "waiting" -> 20
      [] view = "signal_jammer" -> 30
      [] view = "tumbler" -> 50
      [] view = "getaway" -> 75
      [] view = "complete" -> 100
      [] OTHER -> 0

\* GameManager.getLeaderboard: the entry pushed for a squad
LeaderboardEntry(squadId) ==
    [ id |-> squadId,
      currentView |-> squads[squadId].currentView,
      progressPercent |-> ProgressPercent(squads[squadId].currentView),
      tasksCompleted |-> squads[squadId].tasksCompleted,
      finishPosition |-> squads[squadId].finishPosition,
      completedAt |-> squads[squadId].completedAt,
      playerCount |-> Len(squads[squadId].players),
      isComplete |-> squads[squadId].finishPosition # Null ]

\* GameManager.getLeaderboard: the comparator of leaderboard.sort
CompareEntries(a, b) ==
    IF a.isComplete /\ b.isComplete
    THEN a.finishPosition - b.finishPosition
    ELSE IF a.isComplete THEN -1
    ELSE IF b.isComplete THEN 1
    ELSE b.progressPercent - a.progressPercent

\* An insertion that puts the entry before the entries that compare equal
InsertBeforeEqual(sorted, x) ==
    LET later == { i \in 1..Len(sorted) : CompareEntries(sorted[i], x) >= 0 }
        at == IF later = {} THEN Len(sorted) + 1
              ELSE CHOOSE i \in later : \A j \in later : i <= j
    IN  SubSeq(sorted, 1, at - 1) \o << x >> \o SubSeq(sorted, at, Len(sorted))

\* Array.prototype.sort is stable: an entry goes behind every entry that
\* does not compare greater
InsertStable(sorted, x) ==
    LET later == { i \in 1..Len(sorted) : CompareEntries(sorted[i], x) > 0 }
        at == IF later = {} THEN Len(sorted) + 1
              ELSE CHOOSE i \in later : \A j \in later : i <= j
    IN  SubSeq(sorted, 1, at - 1) \o << x >> \o SubSeq(sorted, at, Len(sorted))

\* leaderboard.sort(compare) over the first n entries of the list
RECURSIVE StableSort(_, _)
StableSort(list, n) ==
    IF n = 0 THEN << >>
    ELSE CHOOSE sorted \in { InsertStable(prev, list[n]) :
                                 prev \in { StableSort(list, n - 1) } } : TRUE

\* GameManager.getLeaderboard: the entries in the insertion order of the
\* squads map, then sorted
GetLeaderboard ==
    StableSort([ k \in 1..Len(squads) |-> LeaderboardEntry(k) ], Len(squads))

\* The answer of squad_advance to nobody
AdvanceNothing ==
    [ advanced |-> FALSE, denied |-> FALSE, audience |-> {} ]

\* A squad_advance that does not ask whether the members have confirmed
SquadAdvanceUnchecked(socketId, view, puzzle) ==
    LET squadId == SquadOf(socketId)
        squad == squads[squadId]
        s1 == IF view = "signal_jammer" /\ squad.puzzleId = Null
              THEN [squad EXCEPT !.puzzleId = puzzle,
                                 !.correctSymbol = PuzzleCorrectIndex[puzzle]]
              ELSE squad
    IN  IF squadId = Null
        THEN /\ out' = [ op |-> "squad_advance", id |-> socketId,
                         arg |-> view, res |-> AdvanceNothing ]
             /\ UNCHANGED progVars
             /\ UNCHANGED hist
        ELSE /\ squads' = [squads EXCEPT ![squadId] = SetView(s1, view)]
             /\ out' = [ op |-> "squad_advance", id |-> socketId,
                         arg |-> view,
                         res |-> [ advanced |-> TRUE, denied |-> FALSE,
                                   audience |-> { squad.players[i].id :
                                                    i \in 1..Len(squad.players) } ] ]
             /\ UNCHANGED << phase, squadSize, players, codeFragments,
                             finishCounter, tumblerStates, tumblerSyncStart,
                             squadFragments, tumblerAngles, now, hist, peer >>

\* socket.on('squad_advance'): a squad whose members have all confirmed
\* takes the view (and a puzzle of the catalog on its way to the signal
\* jammer if it has none); its members get view_change and the game master
\* GetLeaderboard of the state after; otherwise the requester gets
\* squad_advance_denied
SquadAdvance(socketId, view, puzzle) ==
    LET squadId == SquadOf(socketId)
        squad == squads[squadId]
        allConfirmed == GetCompletedScans(squad) = Len(squad.players)
        s1 == IF view = "signal_jammer" /\ squad.puzzleId = Null
              THEN [squad EXCEPT !.puzzleId = puzzle,
                                 !.correctSymbol = PuzzleCorrectIndex[puzzle]]
              ELSE squad
    IN  IF squadId = Null
        THEN /\ out' = [ op |-> "squad_advance", id |-> socketId,
                         arg |-> view, res |-> AdvanceNothing ]
             /\ UNCHANGED progVars
             /\ UNCHANGED hist
        ELSE IF ~allConfirmed
        THEN /\ out' = [ op |-> "squad_advance", id |-> socketId,
                         arg |-> view,
                         res |-> [AdvanceNothing EXCEPT !.denied = TRUE,
                                                        !.audience = {socketId}] ]
             /\ UNCHANGED progVars
             /\ UNCHANGED hist
        ELSE /\ squads' = [squads EXCEPT ![squadId] = SetView(s1, view)]
             /\ out' = [ op |-> "squad_advance", id |-> socketId,
                         arg |-> view,
                         res |-> [ advanced |-> TRUE, denied |-> FALSE,
                                   audience |-> { squad.players[i].id :
                                                    i \in 1..Len(squad.players) } ] ]
             /\ UNCHANGED << phase, squadSize, players, codeFragments,
                             finishCounter, tumblerStates, tumblerSyncStart,
                             squadFragments, tumblerAngles, now, hist, peer >>

\* The number of teams on the leaderboard
BoardSquads == 2

\* The sockets of those teams, each of the smallest size
BoardPlayers == 1..(BoardSquads * MinTeamSize)

\* A connected socket that has not registered
BoardStranger == BoardSquads * MinTeamSize + 1

\* The views the members ask for
BoardViews == {"signal_jammer", "tumbler"}

InitBoard ==
    Formed(BoardSquads * MinTeamSize, MinTeamSize,
           [i \in 2..(BoardSquads * MinTeamSize) |-> i])

\* The members confirm their targets, the teams advance through the views,
\* the game master opens the getaway and the teams finish
NextBoard ==
    \/ \E socketId \in BoardPlayers :
          Scan(socketId, RequiredTarget(socketId))
    \/ \E socketId \in BoardPlayers \cup {BoardStranger}, view \in BoardViews :
          SquadAdvance(socketId, view, 1)
    \/ /\ phase # "getaway"
       /\ SetPhase("getaway", [ draws |-> << >>,
                                codes |-> [k \in DOMAIN squads |->
                                             [i \in 1..MinTeamSize |-> i]],
                                puzzle |-> << >>, symbol |-> << >> ])
    \/ \E socketId \in BoardPlayers :
          /\ VerifyCode(socketId, GenerateCodeFragments(MinTeamSize,
                                     [i \in 1..MinTeamSize |-> i]))
          /\ finishCounter' <= MaxIssued

SpecBoard == InitBoard /\ [][NextBoard]_vars

\* C22: the leaderboard lists every team exactly once; the finished teams
\* come first in ascending finish position, then the unfinished teams by
\* descending progress score of their view, and teams of equal score stand
\* in the order in which they were formed
LeaderboardRanked ==
    \A board \in { GetLeaderboard } :
      LET n == Len(board)
      IN
        /\ n = Len(squads)
        /\ { board[i].id : i \in 1..n } = DOMAIN squads
        /\ \A i \in 1..n :
              /\ board[i].isComplete = (squads[board[i].id].finishPosition # Null)
              /\ board[i].progressPercent =
                    ProgressPercent(squads[board[i].id].currentView)
        /\ \A i, j \in 1..n : i < j =>
              /\ board[j].isComplete => board[i].isComplete
              /\ (board[i].isComplete /\ board[j].isComplete) =>
                    board[i].finishPosition <= board[j].finishPosition
              /\ (~board[i].isComplete /\ ~board[j].isComplete) =>
                    /\ board[i].progressPercent >= board[j].progressPercent
                    /\ board[i].progressPercent = board[j].progressPercent
                          => board[i].id < board[j].id

\* The second team has finished and stands before the first, which is at
\* the tumbler
LeaderboardWitness ==
    /\ Len(squads) >= 2
    /\ squads[2].finishPosition # Null
    /\ squads[1].finishPosition = Null
    /\ squads[1].currentView = "tumbler"
    /\ GetLeaderboard[1].id = 2
    /\ GetLeaderboard[2].id = 1

-----------------------------------------------------------------------------
(* Heartbeats *)

-----------------------------------------------------------------------------
(* Two sessions in one process *)

\* The fields the current GameManager owns
ThisManager ==
    [ phase |-> phase, squadSize |-> squadSize, players |-> players,
      squads |-> squads, codeFragments |-> codeFragments ]

\* The next call belongs to the other GameManager of the process: the two
\* exchange their own fields, the globals of the process stay as they are
SwitchSession ==
    /\ peer' = ThisManager
    /\ phase' = peer.phase
    /\ squadSize' = peer.squadSize
    /\ players' = peer.players
    /\ squads' = peer.squads
    /\ codeFragments' = peer.codeFragments
    /\ out' = [ op |-> "switch_session", id |-> Null, arg |-> Null,
                res |-> Null ]
    /\ UNCHANGED << finishCounter, tumblerStates, tumblerSyncStart,
                    squadFragments, tumblerAngles, now, hist >>

\* The second GameManager after its players registered and its team was
\* formed: the sockets MinTeamSize+1..2*MinTeamSize in squad_1
FormedPeer ==
    LET list == [ i \in 1..MinTeamSize |-> MinTeamSize + i ]
        registry == [ id \in Range(list) |-> [ squad |-> Null ] ]
    IN  [ phase |-> "chain", squadSize |-> MinTeamSize,
          players |-> FormedPlayers(registry, list, MinTeamSize),
          squads |-> FormedSquads(list, MinTeamSize, 0),
          codeFragments |-> EmptyMap ]

\* Both sessions have formed their team
InitSessions ==
    LET list == [ i \in 1..MinTeamSize |-> i ]
        registry == [ id \in Range(list) |-> [ squad |-> Null ] ]
    IN  /\ phase = "chain"
        /\ squadSize = MinTeamSize
        /\ players = FormedPlayers(registry, list, MinTeamSize)
        /\ squads = FormedSquads(list, MinTeamSize, 0)
        /\ codeFragments = EmptyMap
        /\ finishCounter = 0
        /\ tumblerStates = EmptyMap
        /\ tumblerSyncStart = EmptyMap
        /\ squadFragments = EmptyMap
        /\ tumblerAngles = EmptyMap
        /\ peer = FormedPeer
        /\ now = 0
        /\ out = [ op |-> "set_phase", id |-> Null, arg |-> "chain",
                   res |-> [ success |-> TRUE, needed |-> 0,
                             phaseChange |-> TRUE ] ]
        /\ hist = [HistInit EXCEPT !.formations = 1]

\* The members that act: the first of each session's team
SessionCallers == {1, MinTeamSize + 1}

\* Each of the two sessions enters the heist and plays; either may be reset
NextSessions ==
    \/ SwitchSession
    \/ SetPhaseDrawing("heist", ResetSecrets, {1}, {0})
    \/ \E socketId \in SessionCallers, draw \in ResetSecrets :
          GetFragment(socketId, draw)
    \/ \E socketId \in SessionCallers, angle \in ResetAngles :
          GetTumblerConfig(socketId, angle)
    \/ \E socketId \in SessionCallers : TumblerState(socketId, TRUE)
    \/ \E socketId \in SessionCallers, code \in ResetSecrets :
          /\ VerifyCode(socketId, GenerateCodeFragments(Len(code), code))
          /\ finishCounter' <= MaxIssued
    \/ ResetGame

SpecSessions == InitSessions /\ [][NextSessions]_vars

\* The map holds for key k after the step what it held before
SameAt(before, after, k) ==
    /\ Has(after, k) = Has(before, k)
    /\ Has(before, k) => after[k] = before[k]

\* C24: an operation on one session leaves the other session's fragment
\* assignments, gate state, angle assignments and finish counter as they
\* were: what the process holds for the teams of the other session does not
\* change, and neither does the finish counter once the other session has a
\* team
SessionsIsolated ==
    [][ out'.op # "switch_session" =>
          /\ \A k \in DOMAIN peer.squads :
                /\ SameAt(squadFragments, squadFragments', k)
                /\ SameAt(tumblerStates, tumblerStates', k)
                /\ SameAt(tumblerSyncStart, tumblerSyncStart', k)
                /\ SameAt(tumblerAngles, tumblerAngles', k)
          /\ peer.squads # << >> => finishCounter' = finishCounter ]_vars

-----------------------------------------------------------------------------
(* Finishing *)

\* The teams are formed in this step
FormsTeams ==
    out'.op = "set_phase" /\ out'.arg = "chain" /\ out'.res.success

\* The squad k gets its finish position in this step
FinishesNow(k) ==
    /\ squads[k].finishPosition = Null
    /\ k \in DOMAIN squads'
    /\ squads'[k].finishPosition # Null

\* C25: a team finishes by a first successful verify_code, which records
\* the next value of the finish counter as its position, sets its progress
\* to 100 and its view to complete; a team that has a finish position keeps
\* it in every step that does not form the teams again
MarkFinishedSetsProgress ==
    [][ \A k \in DOMAIN squads :
          /\ (squads[k].finishPosition # Null /\ ~FormsTeams) =>
                /\ k \in DOMAIN squads'
                /\ squads'[k].finishPosition = squads[k].finishPosition
          /\ (FinishesNow(k) /\ ~FormsTeams) =>
                /\ out'.op = "verify_code"
                /\ squads'[k].finishPosition = finishCounter'
                /\ squads'[k].currentView = "complete"
                /\ squads'[k].progress = 100 ]_vars

-----------------------------------------------------------------------------
(* The advance of a team *)

\* Every member of the squad has a recorded confirmation
FullyConfirmed(squad) ==
    \A i \in 1..Len(squad.players) : Has(squad.scanMap, squad.players[i].id)

\* C26: a squad_advance of a member of a fully confirmed team sets the
\* team's view to the requested one and sends the view change to exactly
\* the team's members; for a team that is not fully confirmed only the
\* requester gets a denial and nothing changes; a request of a player with
\* no team changes nothing and is sent to nobody
AdvanceOnlyWhenConfirmed ==
    [][ out'.op = "squad_advance" =>
          LET squadId == SquadOf(out'.id)
          IN  IF squadId = Null
              THEN /\ ~out'.res.advanced
                   /\ ~out'.res.denied
                   /\ out'.res.audience = {}
                   /\ UNCHANGED progVars
              ELSE IF FullyConfirmed(squads[squadId])
              THEN /\ out'.res.advanced
                   /\ ~out'.res.denied
                   /\ squads'[squadId].currentView = out'.arg
                   /\ out'.res.audience =
                        { squads[squadId].players[i].id :
                            i \in 1..Len(squads[squadId].players) }
                   /\ \A k \in DOMAIN squads :
                         k # squadId => squads'[k] = squads[k]
              ELSE /\ ~out'.res.advanced
                   /\ out'.res.denied
                   /\ out'.res.audience = {out'.id}
                   /\ UNCHANGED progVars ]_vars

\* A member asks for the signal jammer while one member of its team has not
\* confirmed: denied, and the team has neither the view nor a puzzle
AdvanceDeniedWitness ==
    /\ out.op = "squad_advance"
    /\ out.arg = "signal_jammer"
    /\ out.res.denied
    /\ SquadOf(out.id) # Null
    /\ GetCompletedScans(squads[SquadOf(out.id)]) = 1
    /\ squads[SquadOf(out.id)].currentView = "lobby"
    /\ squads[SquadOf(out.id)].puzzleId = Null

-----------------------------------------------------------------------------
(* Status and minigame reports *)

\* The answer of get_squad_status to a socket with no squad
StatusNothing ==
    [ confirmedCount |-> 0, totalCount |-> 0, allConfirmed |-> FALSE ]

\* socket.on('get_squad_status')
GetSquadStatus(socketId) ==
    LET squadId == SquadOf(socketId)
        squad == squads[squadId]
    IN  /\ out' = [ op |-> "get_squad_status", id |-> Null, arg |-> Null,
                    res |-> IF squadId = Null THEN StatusNothing
                            ELSE [ confirmedCount |-> GetCompletedScans(squad),
                                   totalCount |-> Len(squad.players),
                                   allConfirmed |->
                                      GetCompletedScans(squad)
                                         = Len(squad.players) ] ]
        /\ UNCHANGED progVars
        /\ UNCHANGED hist

\* Squad.checkAllAtSweetSpot
CheckAllAtSweetSpot(squad) ==
    /\ Cardinality(DOMAIN squad.minigameStates) = Len(squad.players)
    /\ \A id \in DOMAIN squad.minigameStates :
          squad.minigameStates[id].atSweetSpot

\* A timer that ran out stays on the squad as a handle that is not null
SpentTimer == -1

\* socket.on('minigame_state'): GameManager.updateMinigameState stores the
\* report of the player in its squad; when the squad's minigame is the
\* tumbler, every member is at the sweet spot and the squad has no timer
\* handle, the success is scheduled HoldSeconds ahead (res.timerStarted).
\* hist.broken records that a report during the running timer left some
\* member off the sweet spot
MinigameState(socketId, atSweetSpot) ==
    LET squadId == SquadOf(socketId)
        stored == [squads[squadId] EXCEPT !.minigameStates =
                     Put(@, socketId, [ atSweetSpot |-> atSweetSpot,
                                        timestamp |-> now ])]
        starts == /\ stored.currentMinigame = "tumbler"
                  /\ CheckAllAtSweetSpot(stored)
                  /\ stored.syncTimer = Null
    IN  /\ squads' = IF squadId = Null THEN squads
                     ELSE [squads EXCEPT ![squadId] =
                             IF starts
                             THEN [stored EXCEPT !.syncTimer =
                                      now + HoldSeconds * 1000]
                             ELSE stored]
        /\ hist' = IF squadId = Null THEN hist
                   ELSE [hist EXCEPT !.broken[squadId] =
                           CASE starts -> FALSE
                             [] stored.syncTimer > 0
                                /\ ~CheckAllAtSweetSpot(stored) -> TRUE
                             [] OTHER -> @]
        /\ out' = [ op |-> "minigame_state", id |-> Null, arg |-> Null,
                    res |-> [ timerStarted |-> squadId # Null /\ starts ] ]
        /\ UNCHANGED << phase, squadSize, players, codeFragments,
                        finishCounter, tumblerStates, tumblerSyncStart,
                        squadFragments, tumblerAngles, now, peer >>

\* The sockets that call: a member of the team, who may leave and register
\* again, and a socket that was never in a team
LookupSockets == {1, MinTeamSize + 1}

\* The game is on for one team while sockets without a team call every
\* operation of the player namespace
NextLookup ==
    \/ SetPhaseDrawing("heist", ResetSecrets, {1}, {0})
    \/ \E socketId \in LookupSockets : Register(socketId)
    \/ \E socketId \in LookupSockets : Disconnect(socketId)
    \/ \E socketId \in LookupSockets : GetTargetOp(socketId)
    \/ \E socketId \in LookupSockets : Scan(socketId, MinTeamSize)
    \/ \E socketId \in LookupSockets : GetSquadStatus(socketId)
    \/ \E socketId \in LookupSockets : SignalJammerGuess(socketId, 0)
    \/ \E socketId \in LookupSockets, draw \in ResetSecrets :
          GetFragment(socketId, draw)
    \/ \E socketId \in LookupSockets, code \in ResetSecrets :
          /\ VerifyCode(socketId, GenerateCodeFragments(Len(code), code))
          /\ finishCounter' <= MaxIssued
    \/ \E socketId \in LookupSockets : TumblerState(socketId, TRUE)
    \/ \E socketId \in LookupSockets : MinigameState(socketId, TRUE)
    \/ \E socketId \in LookupSockets : Heartbeat(socketId)

SpecLookup == InitReset /\ [][NextLookup]_vars

\* The identity is not in the registry, has no team, or its team is gone
NoTeam(socketId) ==
    \/ ~Has(players, socketId)
    \/ players[socketId].squad = Null
    \/ players[socketId].squad \notin DOMAIN squads

\* C27: for an identity that is not in the registry, has no team or whose
\* team no longer exists, every operation of the player namespace answers
\* with its safe default (no target, a status of zeros, failure, the
\* placeholder fragment, nothing) and leaves the session and the teams as
\* they are
LookupFailureSafe ==
    [][ \A socketId \in LookupSockets :
          NoTeam(socketId) =>
            /\ (out'.op = "get_target" /\ GetTargetOp(socketId)) =>
                  out'.res.target = Null /\ UNCHANGED progVars
            /\ (out'.op = "scan" /\ Scan(socketId, MinTeamSize)) =>
                  /\ ~out'.res.success
                  /\ ~out'.res.loopComplete
                  /\ ~out'.res.activated
                  /\ UNCHANGED progVars
            /\ (out'.op = "get_squad_status" /\ GetSquadStatus(socketId)) =>
                  /\ out'.res.confirmedCount = 0
                  /\ out'.res.totalCount = 0
                  /\ ~out'.res.allConfirmed
                  /\ UNCHANGED progVars
            /\ (out'.op = "signal_jammer_guess"
                /\ SignalJammerGuess(socketId, 0)) =>
                  ~out'.res.success /\ UNCHANGED progVars
            /\ (out'.op = "get_fragment"
                /\ \E draw \in ResetSecrets : GetFragment(socketId, draw)) =>
                  out'.res.char = "?" /\ UNCHANGED progVars
            /\ (out'.op = "verify_code"
                /\ \E code \in ResetSecrets :
                      VerifyCode(socketId,
                                 GenerateCodeFragments(Len(code), code))) =>
                  ~out'.res.success /\ UNCHANGED progVars
            /\ (out'.op = "tumbler_state" /\ TumblerState(socketId, TRUE)) =>
                  /\ ~out'.res.evaluated
                  /\ ~out'.res.fired
                  /\ UNCHANGED progVars
            /\ (out'.op = "minigame_state" /\ MinigameState(socketId, TRUE)) =>
                  ~out'.res.timerStarted /\ UNCHANGED progVars
            /\ (out'.op = "heartbeat" /\ Heartbeat(socketId)) =>
                  UNCHANGED progVars ]_vars

\* In the heist the member that left guesses the symbol that is recorded as
\* correct for its team: failure
LookupFailedWitness ==
    /\ out.op = "signal_jammer_guess"
    /\ ~out.res.success
    /\ phase = "heist"
    /\ ~Has(players, out.id)
    /\ \E k \in DOMAIN squads :
          /\ FindIndex(squads[k], out.id) # 0
          /\ squads[k].correctSymbol = out.arg
          /\ squads[k].progress = 0

\* ---------------------------------------------------------------------------
\* Payloads
\* ---------------------------------------------------------------------------

\* What a handler leaves when a statement of it throws: no handler of the
\* server catches, the callback is not called
Raised(handler, socketId) ==
    [ op |-> "uncaught_exception", id |-> socketId, arg |-> handler,
      res |-> [ raised |-> TRUE ] ]

\* The payloads of verify_code: none, an object without code, a code that
\* is a number, a string; code holds the characters of a string
CodePayloads ==
    { [ given |-> FALSE, codeType |-> "undefined", code |-> << >> ],
      [ given |-> TRUE, codeType |-> "undefined", code |-> << >> ],
      [ given |-> TRUE, codeType |-> "number", code |-> << >> ],
      [ given |-> TRUE, codeType |-> "string", code |-> << "A", "B" >> ],
      [ given |-> TRUE, codeType |-> "string", code |-> << "B", "A" >> ] }

\* socket.on('verify_code') with the payload as it arrives: data.code is read
\* after the lookups and the finished-squad return, and verifyCode calls
\* code.toUpperCase() when the squad has fragments
VerifyCodeData(socketId, data) ==
    LET squadId == SquadOf(socketId)
        reads == squadId # Null /\ squads[squadId].finishPosition = Null
    IN  IF reads /\ ( \/ ~data.given
                      \/ /\ Has(codeFragments, squadId)
                         /\ data.codeType # "string" )
        THEN /\ out' = Raised("verify_code", socketId)
             /\ UNCHANGED << progVars, now, hist >>
        ELSE VerifyCode(socketId, data.code)

\* The payloads of scan: none, an object without targetId, a target
ScanPayloads ==
    { [ given |-> FALSE, targetId |-> Null ],
      [ given |-> TRUE, targetId |-> Null ] }
    \cup { [ given |-> TRUE, targetId |-> id ] : id \in ResetPlayers }

\* socket.on('scan') with the payload as it arrives: data.targetId is read in
\* the first statement
ScanData(socketId, data) ==
    IF ~data.given
    THEN /\ out' = Raised("scan", socketId)
         /\ UNCHANGED << progVars, now, hist >>
    ELSE Scan(socketId, data.targetId)

\* The sockets that send payloads: the members and a socket without a team
PayloadSockets == ResetPlayers \cup {MinTeamSize + 1}

\* One team: the phases, the members that leave, and scan and verify_code
\* with every payload
NextPayload ==
    \/ \E newPhase \in {"heist", "getaway"} :
          SetPhaseDrawing(newPhase, ResetSecrets, {1}, {0})
    \/ \E socketId \in PayloadSockets : Register(socketId)
    \/ \E socketId \in ResetPlayers : Disconnect(socketId)
    \/ \E socketId \in PayloadSockets, data \in ScanPayloads :
          ScanData(socketId, data)
    \/ \E socketId \in PayloadSockets, data \in CodePayloads :
          /\ VerifyCodeData(socketId, data)
          /\ finishCounter' <= MaxIssued

SpecPayload == InitReset /\ [][NextPayload]_vars

\* A payload that is missing or whose field is missing or not a string
Malformed(data) ==
    \/ ~data.given
    \/ "codeType" \in DOMAIN data /\ data.codeType # "string"

\* C28: verify_code with a missing payload or a missing or non-string code,
\* and scan with a missing payload, end in a result for the caller and never
\* in an error state; the result is a failure (a finished team is told its
\* stored position)
MalformedPayloadFails ==
    [][ /\ \A socketId \in PayloadSockets, data \in CodePayloads :
              (Malformed(data) /\ VerifyCodeData(socketId, data)) =>
                  /\ out'.op = "verify_code"
                  /\ out'.res.success =>
                        /\ SquadOf(socketId) # Null
                        /\ squads[SquadOf(socketId)].finishPosition # Null
        /\ \A socketId \in PayloadSockets, data \in ScanPayloads :
              (Malformed(data) /\ ScanData(socketId, data)) =>
                  out'.op = "scan" /\ ~out'.res.success ]_vars

\* ---------------------------------------------------------------------------
\* The evaluation of the gate
\* ---------------------------------------------------------------------------

\* The reports of a squad on record before the report of `socketId`
PriorStates(squadId) ==
    IF Has(tumblerStates, squadId) THEN tumblerStates[squadId] ELSE EmptyMap

\* The identities with a report on record once `socketId` has reported and
\* every report older than the staleness window is evicted
Recorded(squadId, socketId) ==
    {socketId} \cup
    { id \in DOMAIN PriorStates(squadId) :
        now - PriorStates(squadId)[id].timestamp <= StaleMs }

\* C29: at every evaluation of the gate of a team, the gate is treated as
\* satisfied exactly when, with every report older than 2 s evicted, the
\* number of members on record equals the member count of the team and every
\* report on record is qualifying; an evicted member is absent: it is not
\* counted and its report is gone from the record
GateSatisfiedIffFreshAndQualifying ==
    [][ out'.op = "tumbler_state" =>
        \A socketId \in PlayerIds, atSweetSpot \in BOOLEAN :
          (SquadOf(socketId) # Null /\ TumblerState(socketId, atSweetSpot))
          => LET squadId == SquadOf(socketId)
                 recorded == Recorded(squadId, socketId)
                 qualifying ==
                     { id \in recorded :
                         IF id = socketId THEN atSweetSpot
                         ELSE PriorStates(squadId)[id].atSweetSpot }
             IN  /\ out'.res.synced
                       <=> /\ Cardinality(recorded)
                                = Len(squads[squadId].players)
                           /\ qualifying = recorded
                 /\ out'.res.playersReady = Cardinality(qualifying)
                 /\ ~out'.res.fired
                       => DOMAIN tumblerStates'[squadId] = recorded ]_vars

\* A hold of the three members was running; at this evaluation the report
\* of one of them is older than 2 s: it is evicted, the two reports left are
\* qualifying, the gate is not satisfied and the hold is dropped
StaleMemberAbsentWitness ==
    /\ out.op = "tumbler_state"
    /\ out.res.evaluated
    /\ out.res.reset
    /\ ~out.res.synced
    /\ out.res.playersReady = 2
    /\ Has(tumblerStates, 1)
    /\ Cardinality(DOMAIN tumblerStates[1]) = 2
    /\ \A id \in DOMAIN tumblerStates[1] : tumblerStates[1][id].atSweetSpot

\* ---------------------------------------------------------------------------
\* The timer of updateMinigameState
\* ---------------------------------------------------------------------------

\* Squad.setMinigame on the squad of the session: 'signal_jammer' or
\* 'tumbler'. setPhase('heist') is the one caller in the server and passes
\* 'signal_jammer'
SelectMinigame(squadId, minigame) ==
    /\ squads' = [squads EXCEPT ![squadId] = SetMinigame(@, minigame)]
    /\ out' = [ op |-> "set_minigame", id |-> squadId, arg |-> minigame,
                res |-> Null ]
    /\ UNCHANGED << phase, squadSize, players, codeFragments, finishCounter,
                    tumblerStates, tumblerSyncStart, squadFragments,
                    tumblerAngles, now, hist, peer >>

\* A scheduled success is due
TimerDue(squad) == squad.syncTimer > 0 /\ squad.syncTimer <= now

\* The callback of the setTimeout of updateMinigameState: when every member
\* is at the sweet spot now, the progress rises, the handle is cleared and
\* minigame_success goes to the squad; otherwise nothing, the handle stays
SyncTimerFires(squadId) ==
    LET squad == squads[squadId]
        success == CheckAllAtSweetSpot(squad)
    IN  /\ TimerDue(squad)
        /\ squads' = [squads EXCEPT ![squadId] =
                        IF success
                        THEN [UpdateProgress(squad, GuessProgress)
                                EXCEPT !.syncTimer = Null]
                        ELSE [squad EXCEPT !.syncTimer = SpentTimer]]
        /\ out' = [ op |-> "sync_timer", id |-> squadId, arg |-> Null,
                    res |-> [ success |-> success ] ]
        /\ UNCHANGED << phase, squadSize, players, codeFragments,
                        finishCounter, tumblerStates, tumblerSyncStart,
                        squadFragments, tumblerAngles, now, hist, peer >>

\* The step of the clock at the timer: a third of the hold
TimerTickMs == (HoldSeconds * 1000) \div 3

\* One team of two: its minigame is selected, its members report, the clock
\* moves when no scheduled success is due, and a due success runs
NextTimer ==
    \/ \E squadId \in DOMAIN squads,
          minigame \in {"signal_jammer", "tumbler"} :
          SelectMinigame(squadId, minigame)
    \/ \E socketId \in ResetPlayers, atSweetSpot \in BOOLEAN :
          MinigameState(socketId, atSweetSpot)
    \/ /\ \A k \in DOMAIN squads : ~TimerDue(squads[k])
       /\ Tick(TimerTickMs, MaxTimerTicks * TimerTickMs)
    \/ \E squadId \in DOMAIN squads : SyncTimerFires(squadId)

SpecTimer == InitReset /\ [][NextTimer]_vars

LoopCompleteReportedOnce ==
    [][ out'.op = "scan" =>
        \A socketId \in PlayerIds, targetId \in PlayerIds \cup {Null} :
          (/\ SquadOf(socketId) # Null
           /\ Scan(socketId, targetId)
           /\ out'.res.success)
          => LET squadId == SquadOf(socketId)
                 turns == /\ ~squads[squadId].isLoopComplete
                          /\ squads'[squadId].isLoopComplete
             IN  /\ out'.res.loopComplete <=> turns
                 /\ out'.res.activated <=> turns ]_vars

\* ---------------------------------------------------------------------------
\* Connectivity and the confirmation history
\* ---------------------------------------------------------------------------

\* A squad with the connectivity flag and the heartbeat time of every member
\* blanked: what is left is the member order, the scan-complete marks, the
\* confirmation map, the loop-completion flag and the rest of the squad
WithoutLiveness(squad) ==
    [squad EXCEPT !.players =
        [ i \in 1..Len(squad.players) |->
            [squad.players[i] EXCEPT !.connected = TRUE,
                                     !.lastHeartbeat = 0] ]]

\* C32: a disconnect (Squad.removePlayer) and a heartbeat
\* (Squad.handleReconnect) change nothing of a squad but the connectivity
\* flag and the heartbeat time of the member they are about: the
\* confirmation map, the scan-complete marks, the loop-completion flag and
\* the member order are as before, and so is every other member
ConnectivityKeepsHistory ==
    [][ out'.op \in {"disconnect", "heartbeat"} =>
        /\ DOMAIN squads' = DOMAIN squads
        /\ \A k \in DOMAIN squads :
             /\ WithoutLiveness(squads'[k]) = WithoutLiveness(squads[k])
             /\ squads'[k].scanMap = squads[k].scanMap
             /\ squads'[k].isLoopComplete = squads[k].isLoopComplete
             /\ \A i \in 1..Len(squads[k].players) :
                  /\ squads'[k].players[i].id = squads[k].players[i].id
                  /\ squads'[k].players[i].scanComplete
                       = squads[k].players[i].scanComplete
                  /\ out'.op = "disconnect"
                       => squads'[k].players[i].lastHeartbeat
                            = squads[k].players[i].lastHeartbeat
        /\ \A socketId \in PlayerIds :
             (\/ out'.op = "disconnect" /\ Disconnect(socketId)
              \/ out'.op = "heartbeat" /\ Heartbeat(socketId))
             => \A k \in DOMAIN squads :
                  \A i \in 1..Len(squads[k].players) :
                     squads[k].players[i].id # socketId
                       => squads'[k].players[i] = squads[k].players[i] ]_vars

\* The loop of a team is complete; one member that confirmed has left, and
\* another that confirmed has just sent a heartbeat at a later time: both
\* confirmations are on record
HistoryKeptWitness ==
    /\ out.op = "heartbeat"
    /\ now > 0
    /\ \E k \in DOMAIN squads : \E i, j \in 1..Len(squads[k].players) :
          /\ squads[k].isLoopComplete
          /\ squads[k].players[i].connected
          /\ squads[k].players[i].lastHeartbeat = now
          /\ squads[k].players[i].scanComplete
          /\ Has(squads[k].scanMap, squads[k].players[i].id)
          /\ ~squads[k].players[j].connected
          /\ squads[k].players[j].scanComplete
          /\ Has(squads[k].scanMap, squads[k].players[j].id)
          /\ hist.autoResolved[squads[k].players[j].id] = 0

\* ---------------------------------------------------------------------------
\* Which fragment a member gets
\* ---------------------------------------------------------------------------

\* What get_fragment has on record for a squad
FragmentData(squadId) ==
    IF Has(squadFragments, squadId) THEN squadFragments[squadId]
    ELSE [ assignments |-> EmptyMap, counter |-> 0 ]

\* C33, as stated: the fragment a member holds is the one at the member's
\* own position in the member order of its team: the member at the i-th
\* place holds position i and the i-th character of the secret, whatever the
\* order of the requests
FragmentIsOwnPosition ==
    \A k \in DOMAIN squads : \A i \in 1..Len(squads[k].players) :
        LET id == squads[k].players[i].id
        IN  (/\ Has(codeFragments, k)
             /\ Has(FragmentData(k).assignments, id))
            => /\ FragmentData(k).assignments[id].position = i
               /\ FragmentData(k).assignments[id].char = codeFragments[k][i]

\* C33, amended: the fragment follows the order of the first requests. A
\* member without an assignment that asks when the counter of its team is c
\* gets position (c mod L) + 1 of the secret of L characters the team has at
\* that moment, and the character at that position, and the counter becomes
\* c + 1; a member with an assignment gets the same position and character
\* again and the counter stays
FragmentFollowsRequestOrder ==
    [][ out'.op = "get_fragment" =>
        \A socketId \in PlayerIds, draw \in SquadSecrets :
          (SquadOf(socketId) # Null /\ GetFragment(socketId, draw))
          => LET k == SquadOf(socketId)
                 before == FragmentData(k)
                 after == squadFragments'[k]
                 secret == codeFragments'[k]
             IN  /\ after.assignments[socketId].position = out'.res.position
                 /\ after.assignments[socketId].char = out'.res.char
                 /\ out'.res.codeLength = Len(secret)
                 /\ IF Has(before.assignments, socketId)
                    THEN /\ out'.res.position
                              = before.assignments[socketId].position
                         /\ out'.res.char = before.assignments[socketId].char
                         /\ after.counter = before.counter
                    ELSE /\ out'.res.position
                              = (before.counter % Len(secret)) + 1
                         /\ out'.res.char = secret[out'.res.position]
                         /\ after.counter = before.counter + 1 ]_vars

\* In a team formed once the member at the second place asked first and
\* holds position 1, the member at the first place asked next and holds
\* position 2
RequestOrderWitness ==
    /\ out.op = "get_fragment"
    /\ hist.formations = 1
    /\ \E k \in DOMAIN squads :
          /\ Len(squads[k].players) = 2
          /\ FragmentData(k).counter = 2
          /\ Has(FragmentData(k).assignments, squads[k].players[1].id)
          /\ Has(FragmentData(k).assignments, squads[k].players[2].id)
          /\ FragmentData(k).assignments[squads[k].players[2].id].position = 1
          /\ FragmentData(k).assignments[squads[k].players[1].id].position = 2

\* ---------------------------------------------------------------------------
\* The circle stays as formed
\* ---------------------------------------------------------------------------

\* C34: the circular-target relationship of a squad is fixed at formation:
\* no step of the chain phase (target request, confirmation, heartbeat,
\* disconnect with its registry removal, liveness sweep, passing time)
\* changes the target Squad.getTarget gives for any identity, and the target
\* of the member at position i stays the member at position (i mod N) + 1
TargetsFixedAtFormation ==
    [][ squads' # squads =>
        /\ DOMAIN squads' = DOMAIN squads
        /\ \A k \in DOMAIN squads :
             squads'[k] # squads[k] =>
               /\ \A id \in PlayerIds :
                    GetTarget(squads'[k], id) = GetTarget(squads[k], id)
               /\ \A i \in 1..Len(squads[k].players) :
                    GetTarget(squads'[k], squads[k].players[i].id)
                      = squads[k].players[NextIndex(i, Len(squads[k].players))].id
      ]_vars

\* In a squad of three one member left without confirming and the sweep
\* confirmed for it, another member confirmed by itself and is connected:
\* each member's target is the next member of the circle
TargetsFixedWitness ==
    \E k \in DOMAIN squads :
        /\ Len(squads[k].players) = 3
        /\ \E i, j \in 1..3 :
              /\ ~squads[k].players[j].connected
              /\ ~Has(players, squads[k].players[j].id)
              /\ hist.autoResolved[squads[k].players[j].id] = 1
              /\ squads[k].players[i].connected
              /\ squads[k].players[i].scanComplete
        /\ \A i \in 1..3 :
              GetTarget(squads[k], squads[k].players[i].id)
                = squads[k].players[(i % 3) + 1].id

\* ---------------------------------------------------------------------------
\* The sweep under fair scheduling
\* ---------------------------------------------------------------------------

\* The end of the clock of the sweep
SweepHorizon == MaxSweepTicks * HeartbeatMs

\* A member leaves early enough for its grace period to run out on the
\* clock: its last heartbeat is not after the present
DisconnectInTime(socketId) ==
    /\ now + gracePeriodsMs + HeartbeatMs <= SweepHorizon
    /\ Disconnect(socketId)

NextSweepLive ==
    \/ \E socketId \in 1..2, targetId \in 1..2 : Scan(socketId, targetId)
    \/ \E socketId \in 1..2 : Heartbeat(socketId)
    \/ \E socketId \in 1..2 : DisconnectInTime(socketId)
    \/ CheckTimeouts
    \/ Tick(HeartbeatMs, SweepHorizon)

\* setInterval keeps calling checkTimeouts and the clock keeps running
SpecSweepLive ==
    /\ InitSweep
    /\ [][NextSweepLive]_vars
    /\ WF_vars(CheckTimeouts)
    /\ WF_vars(Tick(HeartbeatMs, SweepHorizon))

\* The member with this id has left its squad's connection
HasLeft(id) ==
    \E k \in DOMAIN squads : \E i \in 1..Len(squads[k].players) :
        squads[k].players[i].id = id /\ ~squads[k].players[i].connected

\* A confirmation of this member is on record
IsConfirmed(id) == \E k \in DOMAIN squads : Has(squads[k].scanMap, id)

\* Every member of the first squad that is connected has confirmed
ConnectedAllConfirmed ==
    \A i \in 1..Len(squads[1].players) :
        squads[1].players[i].connected
            => Has(squads[1].scanMap, squads[1].players[i].id)

\* C35: with the sweep and the clock scheduled fairly, every member that
\* left without a confirmation on record is eventually on record as
\* confirmed, and a squad whose connected members have all confirmed
\* eventually has its loop complete
FailOpenLiveness ==
    /\ \A id \in 1..2 : (HasLeft(id) /\ ~IsConfirmed(id)) ~> IsConfirmed(id)
    /\ ConnectedAllConfirmed ~> squads[1].isLoopComplete

\* A member left without confirming and the sweep confirmed for it; the
\* member that stayed confirmed by itself; the loop is complete
FailOpenWitness ==
    /\ out.op = "check_timeouts"
    /\ squads[1].isLoopComplete
    /\ \E i, j \in 1..2 :
          /\ ~squads[1].players[j].connected
          /\ hist.autoResolved[squads[1].players[j].id] = 1
          /\ squads[1].players[j].id \in out.res.resolved
          /\ squads[1].players[i].connected
          /\ hist.autoResolved[squads[1].players[i].id] = 0

\* ---------------------------------------------------------------------------
\* Two teams side by side
\* ---------------------------------------------------------------------------

\* Two squads of two members, formed at time 0: sockets 1..4
InitTeams ==
    Formed(2 * MinTeamSize, MinTeamSize, [i \in 2..(2 * MinTeamSize) |-> i])

\* The members of the two teams
TeamPlayers == 1..(2 * MinTeamSize)

\* One member of each team plays
TeamCallers == { squads[k].players[1].id : k \in DOMAIN squads }

\* The other members leave and are confirmed by the sweep
TeamLeavers == TeamPlayers \ TeamCallers

\* Both teams go through the game at their own pace. In the chain phase the
\* members confirm and ask for the status of their team, some leave and the
\* sweep runs on the clock; the game
\* master opens the heist, and the caller of a team follows the screens:
\* it advances the team to the signal jammer, guesses, reports to the
\* minigame and to the gate, fetches its fragment and submits the code
NextTeams ==
    \/ /\ phase = "chain"
       /\ \/ \E socketId \in TeamPlayers, targetId \in TeamPlayers :
                Scan(socketId, targetId)
          \/ \E socketId \in TeamCallers : GetSquadStatus(socketId)
          \/ \E socketId \in TeamLeavers : Disconnect(socketId)
          \/ CheckTimeouts
          \/ Tick(ChainTickMs, MaxChainTicks * ChainTickMs)
          \/ SetPhaseDrawing("heist", ResetSecrets, {1}, {0})
    \/ /\ phase = "heist"
       /\ \E socketId \in TeamCallers :
            LET squad == squads[SquadOf(socketId)]
            IN  \/ /\ squad.currentView = "lobby"
                   /\ SquadAdvance(socketId, "signal_jammer", 1)
                \/ /\ squad.currentView = "signal_jammer"
                   /\ squad.progress = 0
                   /\ SignalJammerGuess(socketId, squad.correctSymbol)
                \/ /\ squad.progress > 0
                   /\ MinigameState(socketId, TRUE)
                \/ /\ Has(squad.minigameStates, socketId)
                   /\ TumblerState(socketId, TRUE)
                \/ /\ Has(tumblerStates, squad.id)
                   /\ \E draw \in ResetSecrets : GetFragment(socketId, draw)
                \/ /\ Has(squadFragments, squad.id)
                   /\ \E code \in ResetSecrets :
                         VerifyCode(socketId,
                                    GenerateCodeFragments(Len(code), code))
                   /\ finishCounter' <= MaxIssued

SpecTeams == InitTeams /\ [][NextTeams]_vars

\* What the session and the process hold for one team is as before the step:
\* the squad with its confirmation map, loop flag, progress, view and finish
\* position, its secret, the reports and the hold of its gate, its fragment
\* and angle assignments
TeamUntouched(k) ==
    /\ k \in DOMAIN squads'
    /\ squads'[k] = squads[k]
    /\ SameAt(codeFragments, codeFragments', k)
    /\ SameAt(tumblerStates, tumblerStates', k)
    /\ SameAt(tumblerSyncStart, tumblerSyncStart', k)
    /\ SameAt(squadFragments, squadFragments', k)
    /\ SameAt(tumblerAngles, tumblerAngles', k)

\* The step is an operation of the player namespace sent by this socket
SentBy(socketId) ==
    \/ out'.op = "scan"
       /\ \E targetId \in TeamPlayers : Scan(socketId, targetId)
    \/ out'.op = "disconnect" /\ Disconnect(socketId)
    \/ out'.op = "squad_advance" /\ SquadAdvance(socketId, "signal_jammer", 1)
    \/ out'.op = "signal_jammer_guess"
       /\ \E symbolIndex \in {0} : SignalJammerGuess(socketId, symbolIndex)
    \/ out'.op = "minigame_state" /\ MinigameState(socketId, TRUE)
    \/ out'.op = "tumbler_state" /\ TumblerState(socketId, TRUE)
    \/ out'.op = "get_fragment"
       /\ \E draw \in ResetSecrets : GetFragment(socketId, draw)
    \/ out'.op = "verify_code"
       /\ \E code \in ResetSecrets :
             VerifyCode(socketId, GenerateCodeFragments(Len(code), code))

\* The operations of the members and the sweep
TeamOps ==
    { "scan", "disconnect", "squad_advance", "signal_jammer_guess",
      "minigame_state", "tumbler_state", "get_fragment", "verify_code",
      "check_timeouts" }

EntriesAreTargets(squad) ==
    \A id \in DOMAIN squad.scanMap :
        /\ FindIndex(squad, id) # 0
        /\ squad.scanMap[id]
             = squad.players[NextIndex(FindIndex(squad, id),
                                       Len(squad.players))].id

FragmentMatchesCurrentSecret ==
    [][ out'.op = "get_fragment" =>
        \A draw \in SquadSecrets :
          (SquadOf(1) # Null /\ GetFragment(1, draw))
          => LET secret == codeFragments'[SquadOf(1)]
             IN  /\ out'.res.position \in 1..Len(secret)
                 /\ out'.res.char = secret[out'.res.position] ]_vars

\* ---------------------------------------------------------------------------
\* The registry and the member lists
\* ---------------------------------------------------------------------------

\* C39: the registry and the teams agree on membership: the team reference
\* of a registered player is non-null exactly when the member list of some
\* existing team contains the player, and it then names that team; also
\* after a late registration, after the registration of an identity that is
\* on a team already, and after the teams are formed again
RegistryAgreesWithTeams ==
    \A id \in DOMAIN players :
        /\ players[id].squad # Null
              <=> \E k \in DOMAIN squads : FindIndex(squads[k], id) # 0
        /\ players[id].squad # Null
              => /\ players[id].squad \in DOMAIN squads
                 /\ FindIndex(squads[players[id].squad], id) # 0

=============================================================================
